---- MODULE Spec2Model ----
(***************************************************************************)
(* Tactical combat engine of pygame_tactics_test: the battlefield grid,    *)
(* line of sight, pathfinding, the combat deck and the combat resolver,    *)
(* modelled as state machines over the objects' fields.                    *)
(*                                                                         *)
(* One set of variables holds the objects of a battle.  Each component has *)
(* its own specification (SpecGrid, SpecLOS, SpecDeck, SpecPath,           *)
(* SpecCombat, SpecHit, SpecTarget, SpecUnit, SpecEnemy, SpecFind,         *)
(* SpecDraw, SpecTurn, SpecRoute, SpecLine, SpecCover, SpecSanity) that    *)
(* drives the operations of that component and leaves the other objects as *)
(* constructed.                                                            *)
(***************************************************************************)
EXTENDS Integers, Sequences, FiniteSets, Bags, TLC

VARIABLES
    size,       \* Grid.size
    tiles,      \* Grid.tiles: cell -> Tile fields
    units,      \* unit name -> Unit fields
    decks,      \* deck name -> CombatDeck fields
    screen,     \* BattleScreen: turn_order, current_turn_index,
                \* current_turn_unit, round_number
    result      \* the value returned by the last call (op names the call)

vars == <<size, tiles, units, decks, screen, result>>

(***************************************************************************)
(* Bounds of the model                                                     *)
(***************************************************************************)
GridN == 2          \* grid size of the placement specification
LosN == 3           \* grid size of the line-of-sight specification
MaxCover == 1       \* cover tiles added in the line-of-sight specification
MaxDeckSize == 3    \* cards a deck of the deck specification may hold
MaxDraws == 3       \* cap of total_cards_drawn in the deck specification
PathN == 5          \* grid size of the pathfinding specification
MaxBlockers == 1    \* units standing on the grid of the pathfinding specification
MaxRange == 5       \* largest movement range queried
CombatN == 3        \* grid size of the combat specification
MaxCombatDraws == 2 \* cap of total_cards_drawn of a deck in the combat specification
MaxModifier == 30   \* largest accuracy modifier, either sign, of the hit-chance specification
TargetN == 3        \* grid size of the targeting specification
MaxDamage == 2      \* largest damage amount of the targeting specification
UnitStat == 2       \* largest max_health and max_sanity of the unit specification
MaxAmount == 3      \* largest amount passed to a unit method in the unit specification
MaxStatModifier == 1 \* largest stat modifier, either sign, of the unit specification
EnemyN == 4         \* side of the grid of the enemy turn specification
MaxEnemyCover == 1  \* cover tiles added in the enemy turn specification
MaxEnemyDraws == 2  \* monster deck draws in the enemy turn specification
FindN == 3          \* side of the grid of the path query specification
MaxFindCover == 1   \* cover tiles added in the path query specification
MaxFindDistance == 3 \* largest max_distance passed to find_path in that specification
MaxRounds == 3      \* round_number up to which turns are advanced in the turn specification
MaxNesting == 3     \* nested _advance_turn calls before the interpreter's recursion limit
RouteN == 4         \* side of the grid of the shortest route specification
MaxWalls == 2       \* units in the way in the shortest route specification
MaxCoordinate == 2  \* largest coordinate, either sign, of the line specification
CoverN == 3         \* side of the grid of the cover specification
MaxCoverDraws == 1  \* cap of total_cards_drawn of a deck in the cover specification
SanityN == 2        \* side of the grid of the sanity specification
MaxShock == 4       \* largest amount passed to take_sanity_damage in the sanity specification
MaxSanityDraws == 3 \* cap of total_cards_drawn of a deck in the sanity specification

None == "None"      \* Python None for references and names
NoPos == <<>>       \* Python None for a position tuple

\* BattleScreen fields of a battle without units: an empty turn_order,
\* current_turn_index 0, no current_turn_unit, round_number 1
NoScreen ==
    [ turn_order |-> <<>>, current_turn_index |-> 0,
      current_turn_unit |-> None, round_number |-> 1 ]

Abs(i) == IF i < 0 THEN -i ELSE i
Max(a, b) == IF a >= b THEN a ELSE b
Min(a, b) == IF a <= b THEN a ELSE b

(***************************************************************************)
(* combat/grid.py                                                          *)
(***************************************************************************)
Cells(n) == (0 .. n - 1) \X (0 .. n - 1)

\* Tile.__init__: the fields of a tile of the given terrain type
Tile(terrain_type) ==
    [ terrain_type    |-> terrain_type,
      occupied_by     |-> None,
      blocks_movement |-> FALSE,
      blocks_sight    |-> (terrain_type = "full_cover"),
      defense_bonus   |-> IF terrain_type = "full_cover" THEN 40
                          ELSE IF terrain_type = "half_cover" THEN 20 ELSE 0 ]

\* Grid.__init__: size x size empty tiles
NewGrid(n) == [c \in Cells(n) |-> Tile("empty")]

\* Grid.is_valid_position / the bounds test of Grid.get_tile
is_valid_position(n, x, y) == 0 <= x /\ x < n /\ 0 <= y /\ y < n

\* Tile.is_occupied
is_occupied(tile) == tile.occupied_by # None

\* Unit.__init__: a unit not yet on the grid, unarmed.  kind names the class
\* ("Unit", "Investigator", "Cultist", "Hound").
NewUnit(team, kind, max_health, max_sanity, accuracy, will, movement_range) ==
    [ team                 |-> team,
      kind                 |-> kind,
      position             |-> NoPos,
      base_max_health      |-> max_health,
      current_health       |-> max_health,
      base_max_sanity      |-> max_sanity,
      current_sanity       |-> max_sanity,
      base_accuracy        |-> accuracy,
      base_will            |-> will,
      base_movement_range  |-> movement_range,
      max_health_modifier  |-> 0,
      max_sanity_modifier  |-> 0,
      accuracy_modifier    |-> 0,
      will_modifier        |-> 0,
      movement_modifier    |-> 0,
      is_incapacitated     |-> FALSE,
      max_action_points    |-> 2,
      current_action_points |-> 2,
      equipped_weapon      |-> [name |-> None] ]

\* Grid.place_unit(unit, x, y)
place_unit(u, x, y) ==
    IF is_valid_position(size, x, y) /\ ~is_occupied(tiles[<<x, y>>])
    THEN /\ tiles' = [tiles EXCEPT ![<<x, y>>].occupied_by = u]
         /\ units' = [units EXCEPT ![u].position = <<x, y>>]
         /\ result' = [op |-> "place_unit", value |-> TRUE]
    ELSE /\ result' = [op |-> "place_unit", value |-> FALSE]
         /\ UNCHANGED <<tiles, units>>

\* Grid.remove_unit(x, y): clears the tile, leaves the unit's position
remove_unit(x, y) ==
    IF is_valid_position(size, x, y) /\ is_occupied(tiles[<<x, y>>])
    THEN /\ tiles' = [tiles EXCEPT ![<<x, y>>].occupied_by = None]
         /\ result' = [op |-> "remove_unit", value |-> TRUE]
         /\ UNCHANGED units
    ELSE /\ result' = [op |-> "remove_unit", value |-> FALSE]
         /\ UNCHANGED <<tiles, units>>

\* Grid.move_unit(from_x, from_y, to_x, to_y)
move_unit(fx, fy, tx, ty) ==
    IF /\ is_valid_position(size, fx, fy)
       /\ is_valid_position(size, tx, ty)
       /\ is_occupied(tiles[<<fx, fy>>])
       /\ ~is_occupied(tiles[<<tx, ty>>])
    THEN LET unit == tiles[<<fx, fy>>].occupied_by IN
         /\ tiles' = [tiles EXCEPT ![<<fx, fy>>].occupied_by = None,
                                   ![<<tx, ty>>].occupied_by = unit]
         /\ units' = [units EXCEPT ![unit].position = <<tx, ty>>]
         /\ result' = [op |-> "move_unit", value |-> TRUE]
    ELSE /\ result' = [op |-> "move_unit", value |-> FALSE]
         /\ UNCHANGED <<tiles, units>>

\* An add_cover whose full cover does not block sight
add_cover_seen_through(x, y, cover_type) ==
    IF is_valid_position(size, x, y)
    THEN /\ tiles' = [tiles EXCEPT ![<<x, y>>] =
                [ @ EXCEPT !.terrain_type = cover_type,
                           !.blocks_sight =
                               IF cover_type = "full_cover" THEN FALSE
                               ELSE IF cover_type = "half_cover" THEN FALSE
                               ELSE @,
                           !.defense_bonus =
                               IF cover_type = "full_cover" THEN 40
                               ELSE IF cover_type = "half_cover" THEN 20
                               ELSE @ ]]
         /\ result' = [op |-> "add_cover", value |-> TRUE]
    ELSE /\ result' = [op |-> "add_cover", value |-> FALSE]
         /\ UNCHANGED tiles

\* Grid.add_cover(x, y, cover_type)
add_cover(x, y, cover_type) ==
    IF is_valid_position(size, x, y)
    THEN /\ tiles' = [tiles EXCEPT ![<<x, y>>] =
                [ @ EXCEPT !.terrain_type = cover_type,
                           !.blocks_sight =
                               IF cover_type = "full_cover" THEN TRUE
                               ELSE IF cover_type = "half_cover" THEN FALSE
                               ELSE @,
                           !.defense_bonus =
                               IF cover_type = "full_cover" THEN 40
                               ELSE IF cover_type = "half_cover" THEN 20
                               ELSE @ ]]
         /\ result' = [op |-> "add_cover", value |-> TRUE]
    ELSE /\ result' = [op |-> "add_cover", value |-> FALSE]
         /\ UNCHANGED tiles

\* Grid.get_distance squared: (x2-x1)^2 + (y2-y1)^2.  The distance itself is
\* the square root of this integer; comparisons with integers are made on
\* the squares.
get_distance_sq(a, b) ==
    (b[1] - a[1]) * (b[1] - a[1]) + (b[2] - a[2]) * (b[2] - a[2])

\* Grid.get_neighbors(x, y, diagonal=True): orthogonal first, then diagonal,
\* in the order of the code, out-of-bounds cells dropped
NeighborOffsets ==
    << <<0, 1>>, <<0, -1>>, <<1, 0>>, <<-1, 0>>,
       <<1, 1>>, <<1, -1>>, <<-1, 1>>, <<-1, -1>> >>

get_neighbors(n, c) ==
    LET all == [i \in 1 .. 8 |->
                   <<c[1] + NeighborOffsets[i][1], c[2] + NeighborOffsets[i][2]>>]
    IN  SelectSeq(all, LAMBDA p : is_valid_position(n, p[1], p[2]))

(***************************************************************************)
(* combat/line_of_sight.py                                                 *)
(***************************************************************************)
RECURSIVE BresenhamLoop(_, _, _, _, _, _, _, _, _, _)
BresenhamLoop(x, y, err, x1, y1, dx, dy, sx, sy, points) ==
    LET pts == Append(points, <<x, y>>) IN
    IF x = x1 /\ y = y1 THEN pts
    ELSE LET e2    == 2 * err
             stepx == e2 > -dy
             errx  == IF stepx THEN err - dy ELSE err
             nx    == IF stepx THEN x + sx ELSE x
             stepy == e2 < dx
             erry  == IF stepy THEN errx + dx ELSE errx
             ny    == IF stepy THEN y + sy ELSE y
         IN  BresenhamLoop(nx, ny, erry, x1, y1, dx, dy, sx, sy, pts)

\* A line that leaves out the cell it starts from
bresenham_line_open(start, end) ==
    LET dx == Abs(end[1] - start[1])
        dy == Abs(end[2] - start[2])
        sx == IF start[1] < end[1] THEN 1 ELSE -1
        sy == IF start[2] < end[2] THEN 1 ELSE -1
    IN  Tail(BresenhamLoop(start[1], start[2], dx - dy, end[1], end[2],
                           dx, dy, sx, sy, <<>>))

\* bresenham_line(start, end): every cell of the line, both ends included
bresenham_line(start, end) ==
    LET dx == Abs(end[1] - start[1])
        dy == Abs(end[2] - start[2])
        sx == IF start[1] < end[1] THEN 1 ELSE -1
        sy == IF start[2] < end[2] THEN 1 ELSE -1
    IN  BresenhamLoop(start[1], start[2], dx - dy, end[1], end[2],
                      dx, dy, sx, sy, <<>>)

\* A line-of-sight test that also lets the target's own tile block
has_line_of_sight_end_blocks(start, end, tl, n, ignore_units) ==
    LET line == bresenham_line(start, end) IN
    \A i \in 2 .. Len(line) :
        /\ is_valid_position(n, line[i][1], line[i][2])
        /\ ~tl[line[i]].blocks_sight
        /\ (ignore_units \/ ~is_occupied(tl[line[i]]))

\* has_line_of_sight(start, end, grid, ignore_units): the first and the last
\* cell of the line never block; any other cell blocks when it is out of
\* bounds, blocks sight, or (ignore_units False) holds a unit
has_line_of_sight(start, end, tl, n, ignore_units) ==
    LET line == bresenham_line(start, end) IN
    \A i \in 2 .. Len(line) - 1 :
        /\ is_valid_position(n, line[i][1], line[i][2])
        /\ ~tl[line[i]].blocks_sight
        /\ (ignore_units \/ ~is_occupied(tl[line[i]]))

(***************************************************************************)
(* Specification of unit placement: Grid.place_unit, Grid.move_unit and    *)
(* Grid.remove_unit called with any coordinates (one step out of bounds    *)
(* included) on a fixed set of units.                                      *)
(***************************************************************************)
GridUnits == {"u1", "u2"}

NoDecks == [d \in {} |-> 0]

InitGrid ==
    /\ size = GridN
    /\ screen = NoScreen
    /\ tiles = NewGrid(GridN)
    /\ units = [u \in GridUnits |-> NewUnit("player", "Unit", 15, 10, 75, 5, 4)]
    /\ decks = NoDecks
    /\ result = [op |-> "init"]

PlaceUnit ==
    \E u \in GridUnits, x \in -1 .. size, y \in -1 .. size :
        /\ place_unit(u, x, y)
        /\ UNCHANGED <<screen, size, decks>>

MoveUnit ==
    \E fx \in -1 .. size, fy \in -1 .. size, tx \in -1 .. size, ty \in -1 .. size :
        /\ move_unit(fx, fy, tx, ty)
        /\ UNCHANGED <<screen, size, decks>>

RemoveUnit ==
    \E x \in -1 .. size, y \in -1 .. size :
        /\ remove_unit(x, y)
        /\ UNCHANGED <<screen, size, decks>>

NextGrid == PlaceUnit \/ MoveUnit \/ RemoveUnit

SpecGrid == InitGrid /\ [][NextGrid]_vars

CoverTiles == {c \in Cells(size) : tiles[c].terrain_type # "empty"}

InitLOS ==
    /\ size = LosN
    /\ screen = NoScreen
    /\ tiles = NewGrid(LosN)
    /\ units = [u \in {} |-> 0]
    /\ decks = NoDecks
    /\ result = [op |-> "init"]

AddCoverLOS ==
    \E x \in 0 .. size - 1, y \in 0 .. size - 1,
       cover_type \in {"half_cover", "full_cover"} :
        /\ <<x, y>> \in CoverTiles \/ Cardinality(CoverTiles) < MaxCover
        /\ add_cover(x, y, cover_type)
        /\ UNCHANGED <<screen, size, units, decks>>

QueryLOS ==
    \E a \in Cells(size), b \in Cells(size) :
        /\ result' = [op |-> "has_line_of_sight", start |-> a, end |-> b,
                      value |-> has_line_of_sight(a, b, tiles, size, TRUE)]
        /\ UNCHANGED <<screen, size, tiles, units, decks>>

NextLOS == AddCoverLOS \/ QueryLOS

SpecLOS == InitLOS /\ [][NextLOS]_vars

\* The line between two cells is horizontal, vertical or an exact diagonal
StraightLine(a, b) ==
    \/ a[1] = b[1]
    \/ a[2] = b[2]
    \/ Abs(a[1] - b[1]) = Abs(a[2] - b[2])

\* C2 (as claimed): has_line_of_sight(A, B) = has_line_of_sight(B, A) for
\* every pair of in-bounds cells on a grid whose only obstacles are
\* full_cover tiles.
C2_LosSymmetric ==
    result.op = "has_line_of_sight" =>
        result.value = has_line_of_sight(result.end, result.start, tiles, size, TRUE)

\* C2 (amended): has_line_of_sight(A, B) = has_line_of_sight(B, A) whenever
\* the line between A and B is horizontal, vertical or an exact diagonal.
C2_LosSymmetricStraight ==
    (result.op = "has_line_of_sight" /\ StraightLine(result.start, result.end)) =>
        result.value = has_line_of_sight(result.end, result.start, tiles, size, TRUE)

\* A straight line of sight of at least three cells has been queried and a
\* full_cover tile between its ends blocks it.
C2_Witness ==
    /\ result.op = "has_line_of_sight"
    /\ StraightLine(result.start, result.end)
    /\ Len(bresenham_line(result.start, result.end)) >= 3
    /\ result.value = FALSE
    /\ \E c \in Cells(size) : tiles[c].blocks_sight

(***************************************************************************)
(* entities/combat_deck.py                                                 *)
(***************************************************************************)
\* Card._generate_name
CardName(card_type, modifier) ==
    IF card_type = "null" THEN "NULL"
    ELSE IF card_type = "x2" THEN "x2"
    ELSE IF card_type = "0" THEN "+0"
    ELSE IF card_type = "+" THEN "+" \o ToString(modifier)
    ELSE IF card_type = "-" THEN ToString(modifier)
    ELSE "???"

\* Card.__init__(card_type, modifier) with the generated name
Card(card_type, modifier) ==
    [ card_type |-> card_type, modifier |-> modifier,
      name |-> CardName(card_type, modifier) ]

\* draw() returning None: no card
NoCard == [card_type |-> "none", modifier |-> 0, name |-> None]

\* Card.is_null / Card.is_multiply
is_null(card) == card.card_type = "null"
is_multiply(card) == card.card_type = "x2"

\* Card.apply_to_damage without the NULL branch: the NULL card adds its
\* modifier 0 like any other card
apply_to_damage_null_adds(card, base_damage) ==
    IF card.card_type = "x2" THEN base_damage * 2
    ELSE Max(0, base_damage + card.modifier)

\* Card.apply_to_damage(base_damage)
apply_to_damage(card, base_damage) ==
    IF card.card_type = "null" THEN 0
    ELSE IF card.card_type = "x2" THEN base_damage * 2
    ELSE Max(0, base_damage + card.modifier)

\* CombatDeck.__init__: an empty deck
NewDeck ==
    [ draw_pile |-> <<>>, discard_pile |-> <<>>,
      total_cards_drawn |-> 0, nulls_drawn |-> 0, crits_drawn |-> 0 ]

\* random.shuffle(pile): every ordering of the pile
Shuffles(pile) ==
    { [i \in 1 .. Len(pile) |-> pile[p[i]]] : p \in Permutations(1 .. Len(pile)) }

\* CombatDeck.add_card(card)
deck_add_card(d, card) == [d EXCEPT !.draw_pile = Append(@, card)]

\* The index of the first card of the pile with the given name, 0 if none
FirstNamed(pile, card_name) ==
    LET hits == {i \in 1 .. Len(pile) : pile[i].name = card_name}
    IN  IF hits = {} THEN 0 ELSE CHOOSE i \in hits : \A j \in hits : i <= j

\* list.pop(i)
PopAt(pile, i) == [j \in 1 .. Len(pile) - 1 |-> IF j < i THEN pile[j] ELSE pile[j + 1]]

\* CombatDeck.remove_card(card_name): [deck, value]
deck_remove_card(d, card_name) ==
    LET i == FirstNamed(d.draw_pile, card_name)
        k == FirstNamed(d.discard_pile, card_name)
    IN  IF i > 0
        THEN [deck |-> [d EXCEPT !.draw_pile = PopAt(@, i)], value |-> TRUE]
        ELSE IF k > 0
        THEN [deck |-> [d EXCEPT !.discard_pile = PopAt(@, k)], value |-> TRUE]
        ELSE [deck |-> d, value |-> FALSE]

\* CombatDeck.shuffle(): the decks the call may leave
deck_shuffle(d) == { [d EXCEPT !.draw_pile = p] : p \in Shuffles(d.draw_pile) }

\* CombatDeck.reshuffle_discard(): the discard pile replaces the draw pile
deck_reshuffle_discard(d) ==
    deck_shuffle([d EXCEPT !.draw_pile = d.discard_pile, !.discard_pile = <<>>])

\* a draw that leaves the top card on the draw pile
DrawTop_keeps(d) ==
    LET card == Head(d.draw_pile) IN
    [ deck |-> [ draw_pile    |-> d.draw_pile,
                 discard_pile |-> Append(d.discard_pile, card),
                 total_cards_drawn |-> d.total_cards_drawn + 1,
                 nulls_drawn  |-> IF is_null(card) THEN d.nulls_drawn + 1
                                  ELSE d.nulls_drawn,
                 crits_drawn  |-> IF ~is_null(card) /\ is_multiply(card)
                                  THEN d.crits_drawn + 1 ELSE d.crits_drawn ],
      card |-> card ]

\* CombatDeck.draw(), the part after the empty-pile test: pop the top card,
\* append it to the discard pile, update the statistics
DrawTop(d) ==
    LET card == Head(d.draw_pile) IN
    [ deck |-> [ draw_pile    |-> Tail(d.draw_pile),
                 discard_pile |-> Append(d.discard_pile, card),
                 total_cards_drawn |-> d.total_cards_drawn + 1,
                 nulls_drawn  |-> IF is_null(card) THEN d.nulls_drawn + 1
                                  ELSE d.nulls_drawn,
                 crits_drawn  |-> IF ~is_null(card) /\ is_multiply(card)
                                  THEN d.crits_drawn + 1 ELSE d.crits_drawn ],
      card |-> card ]

\* CombatDeck.draw(): the outcomes [deck, card] the call may have
deck_draw(d) ==
    IF d.draw_pile = <<>>
    THEN IF d.discard_pile = <<>>
         THEN { [deck |-> d, card |-> NoCard] }
         ELSE { DrawTop(r) : r \in deck_reshuffle_discard(d) }
    ELSE { DrawTop(d) }

\* a reset that also clears the statistics
deck_reset_clears(d) ==
    deck_shuffle([d EXCEPT !.draw_pile = d.draw_pile \o d.discard_pile,
                           !.discard_pile = <<>>,
                           !.total_cards_drawn = 0, !.nulls_drawn = 0,
                           !.crits_drawn = 0])

\* CombatDeck.reset(): the decks the call may leave
deck_reset(d) ==
    deck_shuffle([d EXCEPT !.draw_pile = d.draw_pile \o d.discard_pile,
                           !.discard_pile = <<>>])

\* CombatDeck.size()
deck_size(d) == Len(d.draw_pile) + Len(d.discard_pile)

\* The number of copies of a card in the two piles
\* (CombatDeck.get_deck_composition counts them by name)
DeckCount(d, card) ==
    Cardinality({i \in 1 .. Len(d.draw_pile) : d.draw_pile[i] = card})
    + Cardinality({i \in 1 .. Len(d.discard_pile) : d.discard_pile[i] = card})

(***************************************************************************)
(* Specification of the combat deck: one deck, built with add_card, on     *)
(* which every public method is called in any order.                       *)
(***************************************************************************)
DeckCardKinds == {Card("null", 0), Card("x2", 2), Card("+", 1), Card("-", -1)}

InitDeck ==
    /\ size = 0
    /\ screen = NoScreen
    /\ tiles = NewGrid(0)
    /\ units = [u \in {} |-> 0]
    /\ decks = [d \in {"deck"} |-> NewDeck]
    /\ result = [op |-> "init"]

DeckFrame == UNCHANGED <<screen, size, tiles, units>>

AddCard ==
    \E card \in DeckCardKinds :
        /\ deck_size(decks["deck"]) < MaxDeckSize
        /\ decks' = [decks EXCEPT !["deck"] = deck_add_card(@, card)]
        /\ result' = [op |-> "add_card"]
        /\ DeckFrame

RemoveCard ==
    \E card \in DeckCardKinds :
        LET r == deck_remove_card(decks["deck"], card.name) IN
        /\ decks' = [decks EXCEPT !["deck"] = r.deck]
        /\ result' = [op |-> "remove_card", value |-> r.value]
        /\ DeckFrame

Shuffle ==
    \E d \in deck_shuffle(decks["deck"]) :
        /\ decks' = [decks EXCEPT !["deck"] = d]
        /\ result' = [op |-> "shuffle"]
        /\ DeckFrame

ReshuffleDiscard ==
    \E d \in deck_reshuffle_discard(decks["deck"]) :
        /\ decks' = [decks EXCEPT !["deck"] = d]
        /\ result' = [op |-> "reshuffle_discard"]
        /\ DeckFrame

Draw ==
    /\ decks["deck"].total_cards_drawn < MaxDraws
    /\ \E r \in deck_draw(decks["deck"]) :
        /\ decks' = [decks EXCEPT !["deck"] = r.deck]
        /\ result' = [op |-> "draw", card |-> r.card]
        /\ DeckFrame

Reset ==
    \E d \in deck_reset(decks["deck"]) :
        /\ decks' = [decks EXCEPT !["deck"] = d]
        /\ result' = [op |-> "reset"]
        /\ DeckFrame

NextDeck == AddCard \/ RemoveCard \/ Shuffle \/ ReshuffleDiscard \/ Draw \/ Reset

SpecDeck == InitDeck /\ [][NextDeck]_vars

\* C3: draw(), reshuffle_discard(), shuffle() and reset() leave
\* len(draw_pile) + len(discard_pile) and the multiset of cards in the two
\* piles unchanged; only add_card and a successful remove_card change them.
C3_DeckConserved ==
    [][ result'.op \in {"draw", "reshuffle_discard", "shuffle", "reset"} =>
          /\ deck_size(decks'["deck"]) = deck_size(decks["deck"])
          /\ \A card \in DeckCardKinds :
                DeckCount(decks'["deck"], card) = DeckCount(decks["deck"], card) ]_vars

(***************************************************************************)
(* combat/pathfinding.py                                                   *)
(*                                                                         *)
(* A path cost is a + b*sqrt(2): a orthogonal and b diagonal steps.  It is *)
(* kept as the pair (a, b) and compared exactly.  The heuristic is         *)
(* sqrt(n), n the squared distance to the goal; an f-cost a + b*sqrt(2) +  *)
(* sqrt(n) is ordered by its value in thousandths (rounded down term by    *)
(* term, after folding sqrt(n) into a or b when n is k*k or 2*k*k), which  *)
(* orders the f-costs of grids up to 5 x 5 as the real numbers do.  The    *)
(* code computes the same sums in doubles; rounding may order two equal    *)
(* f-costs either way, which changes only which of several paths of equal  *)
(* cost is returned.                                                       *)
(***************************************************************************)
\* a1 + b1*sqrt(2) < a2 + b2*sqrt(2)
CostLess(a1, b1, a2, b2) ==
    LET p == a1 - a2
        q == b1 - b2
    IN  IF q = 0 THEN p < 0
        ELSE IF q > 0 THEN p < 0 /\ 2 * q * q < p * p
        ELSE p <= 0 \/ 2 * q * q > p * p

\* floor(sqrt(m))
Isqrt(m) == CHOOSE r \in 0 .. m : r * r <= m /\ (r + 1) * (r + 1) > m

\* one more decimal digit of a square root: the largest 10*r + d whose
\* square does not exceed target
SqrtDigit(r, target) ==
    10 * r + (CHOOSE d \in 0 .. 9 :
                /\ (10 * r + d) * (10 * r + d) <= target
                /\ (10 * r + d + 1) * (10 * r + d + 1) > target)

\* floor(1000 * sqrt(m))
SqrtMilli(m) ==
    SqrtDigit(SqrtDigit(SqrtDigit(Isqrt(m), 100 * m), 10000 * m), 1000000 * m)

\* the largest k with k*k dividing n (n > 0)
SquarePart(n) ==
    CHOOSE k \in 1 .. n :
        /\ n % (k * k) = 0
        /\ \A j \in (k + 1) .. n : n % (j * j) # 0

\* PathNode.f_cost in thousandths: g = a + b*sqrt(2), h = sqrt(n)
FCost(a, b, n) ==
    IF n = 0 THEN 1000 * a + SqrtMilli(2 * b * b)
    ELSE LET k == SquarePart(n)
             s == n \div (k * k)
         IN  IF s = 1 THEN 1000 * (a + k) + SqrtMilli(2 * b * b)
             ELSE IF s = 2 THEN 1000 * a + SqrtMilli(2 * (b + k) * (b + k))
             ELSE 1000 * a + SqrtMilli(2 * b * b) + SqrtMilli(n)

\* heuristic(x1, y1, x2, y2), squared
heuristic_sq(c, goal) == get_distance_sq(c, goal)

\* find_path returning None
NoPath == <<>>
\* max_distance=None
NoMax == -1

\* A node ordered by its heuristic alone, the cost so far left out of f
PathNode_greedy(c, a, b, goal, parent) ==
    [c |-> c, a |-> a, b |-> b, f |-> FCost(0, 0, heuristic_sq(c, goal)),
     parent |-> parent]

\* PathNode(x, y, g_cost, h_cost, parent): c the cell, g = a + b*sqrt(2),
\* f the f-cost in thousandths, parent the cell of the parent node
PathNode(c, a, b, goal, parent) ==
    [c |-> c, a |-> a, b |-> b, f |-> FCost(a, b, heuristic_sq(c, goal)),
     parent |-> parent]

\* list.sort() with PathNode.__lt__: a stable sort by f-cost
RECURSIVE SortedInsert(_, _)
SortedInsert(sorted, node) ==
    IF sorted = <<>> THEN <<node>>
    ELSE LET last == sorted[Len(sorted)] IN
         IF node.f < last.f
         THEN Append(SortedInsert(SubSeq(sorted, 1, Len(sorted) - 1), node), last)
         ELSE Append(sorted, node)

RECURSIVE StableSort(_)
StableSort(open) ==
    IF open = <<>> THEN <<>>
    ELSE SortedInsert(StableSort(SubSeq(open, 1, Len(open) - 1)), open[Len(open)])

\* reconstruct_path(goal_node): follow the parents back to the start
RECURSIVE reconstruct_path(_, _, _)
reconstruct_path(c, parents, acc) ==
    IF c = NoPos THEN acc
    ELSE reconstruct_path(parents[c], parents, <<c>> \o acc)

\* the index of the node of cell c in the open list, 0 if none
OpenIndex(open, c) ==
    LET hits == {i \in 1 .. Len(open) : open[i].c = c}
    IN  IF hits = {} THEN 0 ELSE CHOOSE i \in hits : \A j \in hits : i <= j

\* find_path, the loop over the neighbors of the current node: the open
\* list after the neighbors from index i on have been examined
RECURSIVE ExploreNeighbors(_, _, _, _, _, _, _, _, _)
ExploreNeighbors(open, nbs, i, current, closed, tl, n, goal, max_distance) ==
    IF i > Len(nbs) THEN open
    ELSE LET nb   == nbs[i]
             diag == Abs(nb[1] - current.c[1]) + Abs(nb[2] - current.c[2]) = 2
             ta   == IF diag THEN current.a ELSE current.a + 1
             tb   == IF diag THEN current.b + 1 ELSE current.b
             k    == OpenIndex(open, nb)
             skip == \/ nb \in closed
                     \/ tl[nb].blocks_movement
                     \/ (is_occupied(tl[nb]) /\ nb # goal)
                     \/ (max_distance # NoMax /\ CostLess(max_distance, 0, ta, tb))
             next == IF skip THEN open
                     ELSE IF k = 0
                     THEN Append(open, PathNode(nb, ta, tb, goal, current.c))
                     ELSE IF CostLess(ta, tb, open[k].a, open[k].b)
                     THEN [open EXCEPT ![k] = PathNode(nb, ta, tb, goal, current.c)]
                     ELSE open
         IN  ExploreNeighbors(next, nbs, i + 1, current, closed, tl, n, goal,
                              max_distance)

\* find_path, the main loop
RECURSIVE AStarLoop(_, _, _, _, _, _, _)
AStarLoop(open, closed, parents, tl, n, goal, max_distance) ==
    IF open = <<>> THEN NoPath
    ELSE LET sorted  == StableSort(open)
             current == Head(sorted)
             parents2 == [c \in DOMAIN parents \cup {current.c} |->
                             IF c = current.c THEN current.parent ELSE parents[c]]
         IN  IF current.c = goal
             THEN reconstruct_path(goal, parents2, <<>>)
             ELSE LET closed2 == closed \cup {current.c}
                      open2 == ExploreNeighbors(Tail(sorted),
                                   get_neighbors(n, current.c), 1, current,
                                   closed2, tl, n, goal, max_distance)
                  IN  AStarLoop(open2, closed2, parents2, tl, n, goal, max_distance)

\* find_path without the test of the goal tile's occupant
find_path_to_occupied(tl, n, start, goal, max_distance) ==
    IF ~is_valid_position(n, start[1], start[2]) THEN NoPath
    ELSE IF ~is_valid_position(n, goal[1], goal[2]) THEN NoPath
    ELSE IF start = goal THEN <<start>>
    ELSE AStarLoop(<<PathNode(start, 0, 0, goal, NoPos)>>, {},
                   [c \in {} |-> NoPos], tl, n, goal, max_distance)

\* find_path(grid, start, goal, max_distance): the path, start and goal
\* included, or NoPath
find_path(tl, n, start, goal, max_distance) ==
    IF ~is_valid_position(n, start[1], start[2]) THEN NoPath
    ELSE IF ~is_valid_position(n, goal[1], goal[2]) THEN NoPath
    ELSE IF start = goal THEN <<start>>
    ELSE IF is_occupied(tl[goal]) THEN NoPath
    ELSE AStarLoop(<<PathNode(start, 0, 0, goal, NoPos)>>, {},
                   [c \in {} |-> NoPos], tl, n, goal, max_distance)

\* get_reachable_tiles, the loop over the neighbors of the tile taken from
\* the frontier: [frontier, visited, reachable] after the neighbors from
\* index i on have been examined
RECURSIVE FloodNeighbors(_, _, _, _, _, _, _)
FloodNeighbors(st, nbs, i, cur, tl, start, movement_range) ==
    IF i > Len(nbs) THEN st
    ELSE LET nb   == nbs[i]
             diag == Abs(nb[1] - cur.c[1]) + Abs(nb[2] - cur.c[2]) = 2
             na   == IF diag THEN cur.a ELSE cur.a + 1
             nbb  == IF diag THEN cur.b + 1 ELSE cur.b
             skip == \/ nb \in st.visited
                     \/ tl[nb].blocks_movement
                     \/ is_occupied(tl[nb])
                     \/ CostLess(movement_range, 0, na, nbb)
             next == IF skip THEN st
                     ELSE [ frontier  |-> Append(st.frontier,
                                                 [c |-> nb, a |-> na, b |-> nbb]),
                            visited   |-> st.visited \cup {nb},
                            reachable |-> IF nb # start
                                          THEN st.reachable \cup {nb}
                                          ELSE st.reachable ]
         IN  FloodNeighbors(next, nbs, i + 1, cur, tl, start, movement_range)

\* get_reachable_tiles, the loop over the frontier (a first-in first-out
\* list; a tile keeps the distance it was first reached with)
RECURSIVE FloodLoop(_, _, _, _, _)
FloodLoop(st, tl, n, start, movement_range) ==
    IF st.frontier = <<>> THEN st.reachable
    ELSE LET cur  == Head(st.frontier)
             rest == [st EXCEPT !.frontier = Tail(st.frontier)]
         IN  FloodLoop(FloodNeighbors(rest, get_neighbors(n, cur.c), 1, cur, tl,
                                      start, movement_range),
                       tl, n, start, movement_range)

\* get_reachable_tiles(grid, start, movement_range)
get_reachable_tiles(tl, n, start, movement_range) ==
    FloodLoop([ frontier  |-> << [c |-> start, a |-> 0, b |-> 0] >>,
                visited   |-> {start},
                reachable |-> {} ],
              tl, n, start, movement_range)

(***************************************************************************)
(* Specification of pathfinding: a moving unit and the units in its way    *)
(* are placed on an empty grid, and get_reachable_tiles is queried from    *)
(* the moving unit's position with any range.                              *)
(***************************************************************************)
Blockers == {"b" \o ToString(i) : i \in 1 .. MaxBlockers}

PathUnits == {"mover"} \cup Blockers

InitPath ==
    /\ size = PathN
    /\ screen = NoScreen
    /\ tiles = NewGrid(PathN)
    /\ units = [u \in PathUnits |-> NewUnit("enemy", "Unit", 15, 10, 75, 5, 4)]
    /\ decks = NoDecks
    /\ result = [op |-> "init"]

PlaceBlocker ==
    \E u \in PathUnits, c \in Cells(size) :
        /\ units[u].position = NoPos
        /\ place_unit(u, c[1], c[2])
        /\ UNCHANGED <<screen, size, decks>>

QueryReachable ==
    \E r \in 1 .. MaxRange :
        /\ units["mover"].position # NoPos
        /\ result' = [op |-> "get_reachable_tiles",
                      start |-> units["mover"].position, range |-> r,
                      value |-> get_reachable_tiles(tiles, size,
                                    units["mover"].position, r)]
        /\ UNCHANGED <<screen, size, tiles, units, decks>>

NextPath == PlaceBlocker \/ QueryReachable

SpecPath == InitPath /\ [][NextPath]_vars

\* C4: a tile t other than the start is in get_reachable_tiles(grid, start, r)
\* if and only if find_path(grid, start, t, max_distance=r) returns a path.
C4_ReachableIffPath ==
    result.op = "get_reachable_tiles" =>
        \A t \in Cells(size) \ {result.start} :
            (t \in result.value) <=>
                (find_path(tiles, size, result.start, t, result.range) # NoPath)

(***************************************************************************)
(* entities/unit.py, entities/equipment.py                                 *)
(***************************************************************************)
\* Unit.max_health, max_sanity, accuracy, will, movement_range (properties)
max_health(u) == Max(1, u.base_max_health + u.max_health_modifier)
max_sanity(u) == Max(1, u.base_max_sanity + u.max_sanity_modifier)
accuracy(u) == Max(5, Min(95, u.base_accuracy + u.accuracy_modifier))
will(u) == Max(0, u.base_will + u.will_modifier)
movement_range(u) == Max(1, u.base_movement_range + u.movement_modifier)

\* take_damage without the cap at the current health
take_damage_uncapped(u, amount) ==
    LET left == u.current_health - amount
    IN  [ unit  |-> IF left <= 0
                    THEN [u EXCEPT !.current_health = 0, !.is_incapacitated = TRUE]
                    ELSE [u EXCEPT !.current_health = left],
          value |-> amount ]

\* Unit.take_damage(amount): [unit, value]
take_damage(u, amount) ==
    LET actual_damage == Min(amount, u.current_health)
        left == u.current_health - actual_damage
    IN  [ unit  |-> IF left <= 0
                    THEN [u EXCEPT !.current_health = 0, !.is_incapacitated = TRUE]
                    ELSE [u EXCEPT !.current_health = left],
          value |-> actual_damage ]

\* Unit.take_sanity_damage(amount): [unit, value]; will is subtracted first
take_sanity_damage(u, amount) ==
    LET actual_damage == Max(0, amount - will(u))
        left == u.current_sanity - actual_damage
    IN  [ unit  |-> IF left <= 0
                    THEN [u EXCEPT !.current_sanity = 0, !.is_incapacitated = TRUE]
                    ELSE [u EXCEPT !.current_sanity = left],
          value |-> actual_damage ]

\* heal that revives a unit whose health is positive again
heal_revives(u, amount) ==
    LET new == Min(max_health(u), u.current_health + amount)
    IN  [ unit  |-> [u EXCEPT !.current_health = new,
                              !.is_incapacitated = (new <= 0)],
          value |-> new - u.current_health ]

\* Unit.heal(amount) and Unit.restore_sanity(amount): [unit, value]
heal(u, amount) ==
    LET new == Min(max_health(u), u.current_health + amount) IN
    [unit |-> [u EXCEPT !.current_health = new], value |-> new - u.current_health]

restore_sanity(u, amount) ==
    LET new == Min(max_sanity(u), u.current_sanity + amount) IN
    [unit |-> [u EXCEPT !.current_sanity = new], value |-> new - u.current_sanity]

\* Unit.can_act()
can_act(u) == ~u.is_incapacitated

\* Unit.reset_turn_flags() and Unit.consume_action_point(amount): [unit, value]
reset_turn_flags(u) == [u EXCEPT !.current_action_points = u.max_action_points]

consume_action_point(u, amount) ==
    IF u.current_action_points >= amount
    THEN [unit |-> [u EXCEPT !.current_action_points = @ - amount], value |-> TRUE]
    ELSE [unit |-> u, value |-> FALSE]

\* Unit.apply_stat_modifiers(**modifiers): m maps the keywords passed to
\* their values
apply_stat_modifiers(u, m) ==
    LET given(k) == IF k \in DOMAIN m THEN m[k] ELSE 0 IN
    [ u EXCEPT
        !.max_health_modifier = @ + given("max_health"),
        !.max_sanity_modifier = @ + given("max_sanity"),
        !.accuracy_modifier   = @ + given("accuracy"),
        !.will_modifier       = @ + given("will"),
        !.movement_modifier   = @ + IF "movement" \in DOMAIN m
                                    THEN m["movement"]
                                    ELSE given("movement_range") ]

\* Weapon.__init__
Weapon(name, damage, weapon_range, attack_type, accuracy_modifier, sanity_damage) ==
    [ name |-> name, damage |-> damage, weapon_range |-> weapon_range,
      attack_type |-> attack_type, accuracy_modifier |-> accuracy_modifier,
      sanity_damage |-> sanity_damage ]

\* The weapon library entries the model equips
REVOLVER == Weapon("Revolver", 5, 3, "ranged", 0, 0)
ELDER_SIGN_AMULET == Weapon("Elder Sign Amulet", 3, 4, "ranged", -10, 5)
CULTIST_PISTOL == Weapon("Cultist Pistol", 4, 3, "ranged", -5, 0)
HOUND_CLAWS == Weapon("Hound Claws", 6, 1, "melee", 10, 5)

\* Unit.equip_weapon / has_weapon / weapon_damage / weapon_range /
\* weapon_sanity_damage: the equipped weapon's values, and 2 damage at range 1
\* without sanity damage for an unarmed unit
equip_weapon(u, weapon) == [u EXCEPT !.equipped_weapon = weapon]
has_weapon(u) == u.equipped_weapon.name # None
weapon_damage(u) == IF has_weapon(u) THEN u.equipped_weapon.damage ELSE 2
weapon_range(u) == IF has_weapon(u) THEN u.equipped_weapon.weapon_range ELSE 1
weapon_sanity_damage(u) ==
    IF has_weapon(u) THEN u.equipped_weapon.sanity_damage ELSE 0

\* Cultist.__init__ and HoundOfTindalos.__init__ (entities/enemy.py)
Cultist ==
    equip_weapon(NewUnit("enemy", "Cultist", 10, 8, 60, 3, 4), CULTIST_PISTOL)
HoundOfTindalos ==
    equip_weapon(NewUnit("enemy", "Hound", 8, 15, 75, 10, 6), HOUND_CLAWS)

(***************************************************************************)
(* combat/line_of_sight.py: cover and attack validity                      *)
(***************************************************************************)
\* get_cover_between(start, end, grid): full cover on an inner cell of the
\* line wins, else half cover, else empty; out-of-bounds cells are skipped
get_cover_between(start, end, tl, n) ==
    LET line  == bresenham_line(start, end)
        inner == {i \in 2 .. Len(line) - 1 :
                      is_valid_position(n, line[i][1], line[i][2])}
    IN  IF \E i \in inner : tl[line[i]].terrain_type = "full_cover"
        THEN "full_cover"
        ELSE IF \E i \in inner : tl[line[i]].terrain_type = "half_cover"
        THEN "half_cover"
        ELSE "empty"

\* can_attack(attacker_pos, target_pos, weapon_range, grid): [ok, reason].
\* distance > weapon_range is decided on the squares.
can_attack(attacker_pos, target_pos, range, tl, n) ==
    IF get_distance_sq(attacker_pos, target_pos) > range * range
    THEN [ok |-> FALSE, reason |-> "out_of_range"]
    ELSE IF ~has_line_of_sight(attacker_pos, target_pos, tl, n, TRUE)
    THEN [ok |-> FALSE, reason |-> "no_line_of_sight"]
    ELSE [ok |-> TRUE, reason |-> "valid"]

\* The cells in the order of the scan of get_valid_attack_targets: rows y,
\* within a row x
ScanCells(n) == [i \in 1 .. n * n |-> <<(i - 1) % n, (i - 1) \div n>>]

\* get_valid_attack_targets(attacker_pos, weapon_range, grid, target_team):
\* the occupied tiles of the target team that can be attacked
get_valid_attack_targets(attacker_pos, range, tl, us, n, target_team) ==
    SelectSeq(ScanCells(n), LAMBDA c :
        /\ is_occupied(tl[c])
        /\ us[tl[c].occupied_by].team = target_team
        /\ can_attack(attacker_pos, c, range, tl, n).ok)

(***************************************************************************)
(* combat/enemy_ai.py: target selection                                    *)
(***************************************************************************)
\* find_highest_health_target(investigators): a unit name or None.  max()
\* returns the first element whose key no other element exceeds.
find_highest_health_target(us, investigators) ==
    LET active == SelectSeq(investigators, LAMBDA i : can_act(us[i]))
        key(k) == us[active[k]].current_health
    IN  IF active = <<>> THEN None
        ELSE active[CHOOSE i \in 1 .. Len(active) :
                        /\ \A j \in 1 .. Len(active) : key(j) <= key(i)
                        /\ \A j \in 1 .. i - 1 : key(j) < key(i)]

\* find_nearest_target(enemy, investigators, grid): a unit name or None; an
\* investigator without position is at infinite distance.  min() returns the
\* first element whose key no other element undercuts.
find_nearest_target(us, enemy, investigators) ==
    LET active == SelectSeq(investigators, LAMBDA i : can_act(us[i]))
        closer(a, b) ==
            /\ us[a].position # NoPos
            /\ \/ us[b].position = NoPos
               \/ get_distance_sq(us[enemy].position, us[a].position)
                    < get_distance_sq(us[enemy].position, us[b].position)
    IN  IF active = <<>> THEN None
        ELSE IF us[enemy].position = NoPos THEN None
        ELSE active[CHOOSE i \in 1 .. Len(active) :
                        /\ \A j \in 1 .. Len(active) : ~closer(active[j], active[i])
                        /\ \A j \in 1 .. i - 1 : closer(active[i], active[j])]

(***************************************************************************)
(* combat/combat_resolver.py                                               *)
(***************************************************************************)
DISTANCE_PENALTY_PER_TILE == 10
HALF_COVER_BONUS == 20
FULL_COVER_BONUS == 40
MIN_HIT_CHANCE == 5
MAX_HIT_CHANCE == 95

\* A distance is carried in thousandths of a tile, rounded down; int(distance)
\* is its whole part.  Grid.get_distance of two cells is the square root of
\* the squared distance.
get_distance(a, b) == SqrtMilli(get_distance_sq(a, b))
IntPart(distance) == distance \div 1000

\* calculate_hit_chance with the distance rounded to the nearest tile
\* instead of truncated
calculate_hit_chance_rounds(attacker, target, distance, cover_type) ==
    LET base_chance      == accuracy(attacker)
        distance_penalty == IntPart(distance + 500) * DISTANCE_PENALTY_PER_TILE
        cover_penalty    == IF cover_type = "half_cover" THEN HALF_COVER_BONUS
                            ELSE IF cover_type = "full_cover" THEN FULL_COVER_BONUS
                            ELSE 0
        final_chance     == base_chance - distance_penalty - cover_penalty
    IN  Max(MIN_HIT_CHANCE, Min(MAX_HIT_CHANCE, final_chance))

\* calculate_hit_chance(attacker, target, distance, cover_type)
calculate_hit_chance(attacker, target, distance, cover_type) ==
    LET base_chance      == accuracy(attacker)
        distance_penalty == IntPart(distance) * DISTANCE_PENALTY_PER_TILE
        cover_penalty    == IF cover_type = "half_cover" THEN HALF_COVER_BONUS
                            ELSE IF cover_type = "full_cover" THEN FULL_COVER_BONUS
                            ELSE 0
        final_chance     == base_chance - distance_penalty - cover_penalty
    IN  Max(MIN_HIT_CHANCE, Min(MAX_HIT_CHANCE, final_chance))

\* Investigator.combat_deck: the personal deck is filed under the
\* investigator's name
combat_deck(a) == a

\* The deck resolve_attack draws from on a hit: the personal deck of an
\* Investigator, else the monster deck passed in (None: no deck)
AttackDeck(us, a, monster_deck) ==
    IF us[a].kind = "Investigator" THEN combat_deck(a) ELSE monster_deck

\* The miss branch of a resolver that draws the card before it tests the
\* roll: the card is consumed although the attack missed
resolve_miss_draws_first(us, dk, a, monster_deck, pre) ==
    LET deck  == AttackDeck(us, a, monster_deck)
        draws == IF deck = None THEN { [deck |-> NewDeck, card |-> NoCard] }
                 ELSE deck_draw(dk[deck])
    IN  { [ result |-> [ valid |-> TRUE, hit_chance |-> pre.hit_chance,
                         roll |-> pre.roll, distance |-> pre.distance,
                         cover |-> pre.cover, base_damage |-> pre.base_damage,
                         sanity_damage |-> 0, card_drawn |-> o.card.name,
                         card_is_crit |-> FALSE, card_is_null |-> FALSE,
                         hit |-> FALSE, final_damage |-> 0, damage_dealt |-> 0,
                         target_killed |-> FALSE ],
            units |-> us,
            decks |-> IF deck = None THEN dk ELSE [dk EXCEPT ![deck] = o.deck] ]
          : o \in draws }

\* resolve_attack, the miss branch: the result is completed and returned,
\* nothing else is touched
resolve_miss(us, dk, a, monster_deck, pre) ==
    { [ result |-> [ valid |-> TRUE, hit_chance |-> pre.hit_chance,
                     roll |-> pre.roll, distance |-> pre.distance,
                     cover |-> pre.cover, base_damage |-> pre.base_damage,
                     sanity_damage |-> 0, card_drawn |-> None,
                     card_is_crit |-> FALSE, card_is_null |-> FALSE,
                     hit |-> FALSE, final_damage |-> 0, damage_dealt |-> 0,
                     target_killed |-> FALSE ],
        units |-> us, decks |-> dk ] }

\* resolve_attack, the hit branch: draw a card (Investigator.draw_combat_card
\* or monster_deck.draw), apply it to the weapon damage, damage the target
resolve_hit(us, dk, a, t, monster_deck, pre) ==
    LET deck  == AttackDeck(us, a, monster_deck)
        draws == IF deck = None THEN { [deck |-> NewDeck, card |-> NoCard] }
                 ELSE deck_draw(dk[deck])
        outcome(o) ==
            LET card         == o.card
                base_damage  == weapon_damage(us[a])
                final_damage == IF card # NoCard
                                THEN apply_to_damage(card, base_damage)
                                ELSE base_damage
                hurt         == take_damage(us[t], final_damage)
                shaken       == IF weapon_sanity_damage(us[a]) > 0
                                THEN take_sanity_damage(hurt.unit,
                                         weapon_sanity_damage(us[a]))
                                ELSE [unit |-> hurt.unit, value |-> 0]
            IN  [ result |-> [ valid |-> TRUE, hit_chance |-> pre.hit_chance,
                               roll |-> pre.roll, distance |-> pre.distance,
                               cover |-> pre.cover,
                               base_damage |-> pre.base_damage,
                               sanity_damage |-> shaken.value,
                               card_drawn |-> card.name,
                               card_is_crit |-> card # NoCard /\ is_multiply(card),
                               card_is_null |-> card # NoCard /\ is_null(card),
                               hit |-> TRUE, final_damage |-> final_damage,
                               damage_dealt |-> hurt.value,
                               target_killed |-> shaken.unit.is_incapacitated ],
                  units |-> [us EXCEPT ![t] = shaken.unit],
                  decks |-> IF deck = None THEN dk
                            ELSE [dk EXCEPT ![deck] = o.deck] ]
    IN  { outcome(o) : o \in draws }

\* A resolver that tests the line of sight only after the attack has been
\* rolled and applied
resolve_attack_late_los(us, dk, tl, n, a, t, roll, monster_deck) ==
    LET attacker == us[a]
        target   == us[t]
    IN  IF attacker.position = NoPos \/ target.position = NoPos
        THEN { [ result |-> [ valid |-> FALSE,
                              reason |-> "attacker or target not on grid" ],
                 units |-> us, decks |-> dk ] }
        ELSE IF get_distance_sq(attacker.position, target.position)
                    > weapon_range(attacker) * weapon_range(attacker)
        THEN { [ result |-> [ valid |-> FALSE, reason |-> "out_of_range",
                              distance |-> get_distance(attacker.position,
                                                        target.position),
                              weapon_range |-> weapon_range(attacker) ],
                 units |-> us, decks |-> dk ] }
        ELSE LET distance   == get_distance(attacker.position, target.position)
                 cover_type == get_cover_between(attacker.position,
                                                 target.position, tl, n)
                 hit_chance == calculate_hit_chance(attacker, target,
                                                    distance, cover_type)
                 pre == [ hit_chance |-> hit_chance, roll |-> roll,
                          distance |-> distance, cover |-> cover_type,
                          base_damage |-> weapon_damage(attacker) ]
                 outs == IF ~(roll <= hit_chance)
                         THEN resolve_miss(us, dk, a, monster_deck, pre)
                         ELSE resolve_hit(us, dk, a, t, monster_deck, pre)
             IN  IF ~has_line_of_sight(attacker.position, target.position,
                                       tl, n, TRUE)
                 THEN { [ result |-> [ valid |-> FALSE,
                                       reason |-> "no_line_of_sight" ],
                          units |-> o.units, decks |-> o.decks ] : o \in outs }
                 ELSE outs

\* resolve_attack(attacker, target, grid, monster_deck) with the d100 roll as
\* an input: the outcomes [result, units, decks] the call may have
resolve_attack(us, dk, tl, n, a, t, roll, monster_deck) ==
    LET attacker == us[a]
        target   == us[t]
    IN  IF attacker.position = NoPos \/ target.position = NoPos
        THEN { [ result |-> [ valid |-> FALSE,
                              reason |-> "attacker or target not on grid" ],
                 units |-> us, decks |-> dk ] }
        ELSE IF get_distance_sq(attacker.position, target.position)
                    > weapon_range(attacker) * weapon_range(attacker)
        THEN { [ result |-> [ valid |-> FALSE, reason |-> "out_of_range",
                              distance |-> get_distance(attacker.position,
                                                        target.position),
                              weapon_range |-> weapon_range(attacker) ],
                 units |-> us, decks |-> dk ] }
        ELSE IF ~has_line_of_sight(attacker.position, target.position, tl, n, TRUE)
        THEN { [ result |-> [valid |-> FALSE, reason |-> "no_line_of_sight"],
                 units |-> us, decks |-> dk ] }
        ELSE LET distance   == get_distance(attacker.position, target.position)
                 cover_type == get_cover_between(attacker.position,
                                                 target.position, tl, n)
                 hit_chance == calculate_hit_chance(attacker, target,
                                                    distance, cover_type)
                 pre == [ hit_chance |-> hit_chance, roll |-> roll,
                          distance |-> distance, cover |-> cover_type,
                          base_damage |-> weapon_damage(attacker) ]
             IN  IF ~(roll <= hit_chance)
                 THEN resolve_miss(us, dk, a, monster_deck, pre)
                 ELSE resolve_hit(us, dk, a, t, monster_deck, pre)

\* get_attack_preview(attacker, target, grid): the returned dictionary
get_attack_preview(us, tl, n, a, t) ==
    LET attacker == us[a]
        target   == us[t]
    IN  IF attacker.position = NoPos \/ target.position = NoPos
        THEN [valid |-> FALSE, reason |-> "not on grid"]
        ELSE IF get_distance_sq(attacker.position, target.position)
                    > weapon_range(attacker) * weapon_range(attacker)
        THEN [ valid |-> FALSE, reason |-> "out_of_range",
               distance |-> get_distance(attacker.position, target.position),
               weapon_range |-> weapon_range(attacker) ]
        ELSE IF ~has_line_of_sight(attacker.position, target.position, tl, n, TRUE)
        THEN [valid |-> FALSE, reason |-> "no_line_of_sight"]
        ELSE LET distance    == get_distance(attacker.position, target.position)
                 cover_type  == get_cover_between(attacker.position,
                                                  target.position, tl, n)
                 base_damage == weapon_damage(attacker)
             IN  [ valid |-> TRUE,
                   hit_chance |-> calculate_hit_chance(attacker, target,
                                                       distance, cover_type),
                   distance |-> distance, cover |-> cover_type,
                   base_damage |-> base_damage,
                   min_damage |-> Max(0, base_damage - 1),
                   max_damage |-> base_damage * 2 ]

(***************************************************************************)
(* Specification of combat resolution: an investigator (left spawn column) *)
(* and an enemy (right spawn column) are placed, cover is added between    *)
(* the columns, and resolve_attack and get_attack_preview are called for   *)
(* either unit against the other.  The investigator owns a shuffled        *)
(* personal deck, the enemies share the shuffled monster deck.             *)
(***************************************************************************)
CombatUnits == {"inv", "enemy"}
CombatCards == <<Card("null", 0), Card("+", 1)>>
Rolls == {1, 50, 100}

SpawnCells(u) ==
    {c \in Cells(size) : c[1] = IF units[u].team = "player" THEN 0 ELSE size - 1}

InitCombat ==
    /\ size = CombatN
    /\ screen = NoScreen
    /\ tiles = NewGrid(CombatN)
    /\ \E e \in {Cultist, HoundOfTindalos} :
           units = [u \in CombatUnits |->
                       IF u = "inv"
                       THEN equip_weapon(
                                NewUnit("player", "Investigator", 8, 10, 75, 5, 4),
                                ELDER_SIGN_AMULET)
                       ELSE e]
    /\ \E p \in Shuffles(CombatCards), q \in Shuffles(CombatCards) :
           decks = [d \in {combat_deck("inv"), "monster"} |->
                       [NewDeck EXCEPT !.draw_pile =
                           IF d = "monster" THEN q ELSE p]]
    /\ result = [op |-> "init"]

CombatPlace ==
    \E u \in CombatUnits : \E c \in SpawnCells(u) :
        /\ units[u].position = NoPos
        /\ place_unit(u, c[1], c[2])
        /\ UNCHANGED <<screen, size, decks>>

CombatAddCover ==
    \E c \in Cells(size), cover_type \in {"half_cover", "full_cover"} :
        /\ 0 < c[1] /\ c[1] < size - 1
        /\ Cardinality({k \in Cells(size) : tiles[k].terrain_type # "empty"})
               < MaxCover
        /\ add_cover(c[1], c[2], cover_type)
        /\ UNCHANGED <<screen, size, units, decks>>

ResolveAttack ==
    \E a \in CombatUnits, t \in CombatUnits, roll \in Rolls,
       monster_deck \in {None, "monster"} :
        /\ a # t
        /\ LET deck == AttackDeck(units, a, monster_deck) IN
           deck # None => decks[deck].total_cards_drawn < MaxCombatDraws
        /\ \E o \in resolve_attack(units, decks, tiles, size, a, t, roll,
                                   monster_deck) :
               /\ units' = o.units
               /\ decks' = o.decks
               /\ result' = [ op |-> "resolve_attack", attacker |-> a,
                              target |-> t, ret |-> o.result ]
        /\ UNCHANGED <<screen, size, tiles>>

\* A preview obtained by resolving the attack with a roll that always hits
GetAttackPreview_resolves ==
    \E a \in CombatUnits, t \in CombatUnits :
        /\ a # t
        /\ \E o \in resolve_attack(units, decks, tiles, size, a, t, 1, None) :
               /\ units' = o.units
               /\ decks' = o.decks
               /\ result' = [ op |-> "get_attack_preview", attacker |-> a,
                              target |-> t, ret |-> o.result ]
        /\ UNCHANGED <<screen, size, tiles>>

GetAttackPreview ==
    \E a \in CombatUnits, t \in CombatUnits :
        /\ a # t
        /\ result' = [ op |-> "get_attack_preview", attacker |-> a,
                       target |-> t,
                       ret |-> get_attack_preview(units, tiles, size, a, t) ]
        /\ UNCHANGED <<screen, size, tiles, units, decks>>

NextCombat ==
    \/ CombatPlace
    \/ CombatAddCover
    \/ ResolveAttack
    \/ GetAttackPreview

SpecCombat == InitCombat /\ [][NextCombat]_vars

C7_PreviewChangesNothing ==
    [][ result'.op = "get_attack_preview"
        => UNCHANGED <<screen, size, tiles, units, decks>> ]_vars

\* A preview of an attack that could be made, with a card ready to be drawn
C7_Witness ==
    /\ result.op = "get_attack_preview"
    /\ result.ret.valid
    /\ result.ret.hit_chance > 5
    /\ \A d \in DOMAIN decks : decks[d].draw_pile # <<>>

\* The three cases in which resolve_attack refuses the attack
AttackRefused(a, t) ==
    \/ units[a].position = NoPos
    \/ units[t].position = NoPos
    \/ get_distance_sq(units[a].position, units[t].position)
           > weapon_range(units[a]) * weapon_range(units[a])
    \/ ~has_line_of_sight(units[a].position, units[t].position,
                          tiles, size, TRUE)

\* C9: resolve_attack called for a unit without position, for a target
\* farther than the weapon range, or across a blocked line of sight returns
\* an invalid result naming the reason and changes no unit, deck or tile.
C9_InvalidChangesNothing ==
    [][ ( /\ result'.op = "resolve_attack"
          /\ AttackRefused(result'.attacker, result'.target) )
        => ( /\ ~result'.ret.valid
             /\ result'.ret.reason \in { "attacker or target not on grid",
                                          "out_of_range", "no_line_of_sight" }
             /\ UNCHANGED <<screen, size, tiles, units, decks>> ) ]_vars

\* An attack refused for a blocked line of sight
C9_Witness ==
    /\ result.op = "resolve_attack"
    /\ ~result.ret.valid
    /\ result.ret.reason = "no_line_of_sight"
    /\ AttackRefused(result.attacker, result.target)

BaseAccuracies == {0, 30, 60, 75, 100}
AccuracyChanges == {-15, 15}
HitDistances ==
    {0, 500, 999, 1000, 1414, 1999, 2000, 2236, 2828, 3000, 4500, 7071, 9899, 12727}
CoverTypes == {"empty", "half_cover", "full_cover"}

InitHit ==
    /\ size = 0
    /\ screen = NoScreen
    /\ tiles = NewGrid(0)
    /\ \E acc \in BaseAccuracies :
           units = [u \in {"attacker", "target"} |->
                       NewUnit(IF u = "attacker" THEN "player" ELSE "enemy",
                               "Unit", 15, 10, acc, 5, 4)]
    /\ decks = NoDecks
    /\ result = [op |-> "init"]

ApplyAccuracyModifier ==
    \E m \in AccuracyChanges :
        /\ Abs(units["attacker"].accuracy_modifier + m) <= MaxModifier
        /\ units' = [units EXCEPT !["attacker"] =
                        apply_stat_modifiers(@, [k \in {"accuracy"} |-> m])]
        /\ result' = [op |-> "apply_stat_modifiers"]
        /\ UNCHANGED <<screen, size, tiles, decks>>

CalculateHitChance ==
    \E distance \in HitDistances, cover_type \in CoverTypes :
        /\ result' = [ op |-> "calculate_hit_chance",
                       accuracy |-> accuracy(units["attacker"]),
                       distance |-> distance, cover_type |-> cover_type,
                       value |-> calculate_hit_chance(units["attacker"],
                                     units["target"], distance, cover_type) ]
        /\ UNCHANGED <<screen, size, tiles, units, decks>>

NextHit ==
    \/ ApplyAccuracyModifier
    \/ CalculateHitChance

SpecHit == InitHit /\ [][NextHit]_vars

Investigators == <<"inv1", "inv2">>
TargetUnits == {"inv1", "inv2", "cultist"}

InitTarget ==
    /\ size = TargetN
    /\ screen = NoScreen
    /\ tiles = NewGrid(TargetN)
    /\ units = [u \in TargetUnits |->
                   IF u = "cultist" THEN Cultist
                   ELSE equip_weapon(
                            NewUnit("player", "Investigator",
                                    MaxDamage, MaxDamage, 75, 1, 4),
                            REVOLVER)]
    /\ decks = NoDecks
    /\ result = [op |-> "init"]

TargetFrame == UNCHANGED <<screen, size, tiles, decks>>

TargetPlace ==
    \E u \in TargetUnits : \E c \in SpawnCells(u) :
        /\ units[u].position = NoPos
        /\ place_unit(u, c[1], c[2])
        /\ UNCHANGED <<screen, size, decks>>

TakeDamage ==
    \E i \in 1 .. Len(Investigators), amount \in 1 .. MaxDamage :
        LET r == take_damage(units[Investigators[i]], amount) IN
        /\ units' = [units EXCEPT ![Investigators[i]] = r.unit]
        /\ result' = [op |-> "take_damage", value |-> r.value]
        /\ TargetFrame

TakeSanityDamage ==
    \E i \in 1 .. Len(Investigators), amount \in 1 .. MaxDamage :
        LET r == take_sanity_damage(units[Investigators[i]], amount) IN
        /\ units' = [units EXCEPT ![Investigators[i]] = r.unit]
        /\ result' = [op |-> "take_sanity_damage", value |-> r.value]
        /\ TargetFrame

Heal ==
    \E i \in 1 .. Len(Investigators) :
        LET r == heal(units[Investigators[i]], 1) IN
        /\ units' = [units EXCEPT ![Investigators[i]] = r.unit]
        /\ result' = [op |-> "heal", value |-> r.value]
        /\ TargetFrame

FindHighestHealthTarget ==
    /\ result' = [ op |-> "find_highest_health_target",
                   value |-> find_highest_health_target(units, Investigators) ]
    /\ UNCHANGED <<screen, units, size, tiles, decks>>

FindNearestTarget ==
    /\ result' = [ op |-> "find_nearest_target",
                   value |-> find_nearest_target(units, "cultist",
                                                 Investigators) ]
    /\ UNCHANGED <<screen, units, size, tiles, decks>>

GetValidAttackTargets ==
    \E u \in TargetUnits :
        /\ units[u].position # NoPos
        /\ result' = [ op |-> "get_valid_attack_targets", attacker |-> u,
                       value |-> get_valid_attack_targets(
                                     units[u].position, weapon_range(units[u]),
                                     tiles, units, size,
                                     IF units[u].team = "player" THEN "enemy"
                                     ELSE "player") ]
        /\ UNCHANGED <<screen, units, size, tiles, decks>>

NextTarget ==
    \/ TargetPlace
    \/ TakeDamage
    \/ TakeSanityDamage
    \/ Heal
    \/ FindHighestHealthTarget
    \/ FindNearestTarget
    \/ GetValidAttackTargets

SpecTarget == InitTarget /\ [][NextTarget]_vars

\* C5: a unit whose health or sanity has reached 0 is never the value
\* returned by find_highest_health_target or find_nearest_target, and its
\* position is never an element of the list returned by
\* get_valid_attack_targets.
C5_DownedNeverTargeted ==
    LET downed(u) == \/ units[u].current_health = 0
                     \/ units[u].current_sanity = 0
                     \/ units[u].is_incapacitated
    IN  /\ result.op \in {"find_highest_health_target", "find_nearest_target"}
           => (result.value = None \/ ~downed(result.value))
        /\ result.op = "get_valid_attack_targets"
           => \A u \in DOMAIN units :
                  (downed(u) /\ units[u].position # NoPos)
                  => \A i \in 1 .. Len(result.value) :
                         result.value[i] # units[u].position

(***************************************************************************)
(* Specification of a unit: one unit of any small max_health and           *)
(* max_sanity on which take_damage, take_sanity_damage, heal,              *)
(* restore_sanity, apply_stat_modifiers, consume_action_point and          *)
(* reset_turn_flags are called in any order with any amount.               *)
(***************************************************************************)
StatChanges ==
    { [k \in {"max_health"} |-> 1], [k \in {"max_health"} |-> -1],
      [k \in {"max_sanity"} |-> 1], [k \in {"max_sanity"} |-> -1],
      [k \in {"will"} |-> 1], [k \in {"will"} |-> -1] }

InitUnit ==
    /\ size = 0
    /\ screen = NoScreen
    /\ tiles = NewGrid(0)
    /\ \E hp \in 1 .. UnitStat, san \in 1 .. UnitStat :
           units = [u \in {"unit"} |-> NewUnit("player", "Unit", hp, san, 75, 1, 4)]
    /\ decks = NoDecks
    /\ result = [op |-> "init"]

UnitFrame == UNCHANGED <<screen, size, tiles, decks>>

UnitTakeDamage ==
    \E amount \in 0 .. MaxAmount :
        LET r == take_damage(units["unit"], amount) IN
        /\ units' = [units EXCEPT !["unit"] = r.unit]
        /\ result' = [op |-> "take_damage", amount |-> amount, value |-> r.value]
        /\ UnitFrame

UnitTakeSanityDamage ==
    \E amount \in 0 .. MaxAmount :
        LET r == take_sanity_damage(units["unit"], amount) IN
        /\ units' = [units EXCEPT !["unit"] = r.unit]
        /\ result' = [ op |-> "take_sanity_damage", amount |-> amount,
                       value |-> r.value ]
        /\ UnitFrame

UnitHeal ==
    \E amount \in 0 .. MaxAmount :
        LET r == heal(units["unit"], amount) IN
        /\ units' = [units EXCEPT !["unit"] = r.unit]
        /\ result' = [op |-> "heal", amount |-> amount, value |-> r.value]
        /\ UnitFrame

UnitRestoreSanity ==
    \E amount \in 0 .. MaxAmount :
        LET r == restore_sanity(units["unit"], amount) IN
        /\ units' = [units EXCEPT !["unit"] = r.unit]
        /\ result' = [ op |-> "restore_sanity", amount |-> amount,
                       value |-> r.value ]
        /\ UnitFrame

UnitApplyStatModifiers ==
    \E m \in StatChanges :
        LET u == apply_stat_modifiers(units["unit"], m) IN
        /\ Abs(u.max_health_modifier) <= MaxStatModifier
        /\ Abs(u.max_sanity_modifier) <= MaxStatModifier
        /\ Abs(u.will_modifier) <= MaxStatModifier
        /\ units' = [units EXCEPT !["unit"] = u]
        /\ result' = [op |-> "apply_stat_modifiers"]
        /\ UnitFrame

UnitConsumeActionPoint ==
    LET r == consume_action_point(units["unit"], 1) IN
    /\ units' = [units EXCEPT !["unit"] = r.unit]
    /\ result' = [op |-> "consume_action_point", value |-> r.value]
    /\ UnitFrame

UnitResetTurnFlags ==
    /\ units' = [units EXCEPT !["unit"] = reset_turn_flags(@)]
    /\ result' = [op |-> "reset_turn_flags"]
    /\ UnitFrame

NextUnit ==
    \/ UnitTakeDamage
    \/ UnitTakeSanityDamage
    \/ UnitHeal
    \/ UnitRestoreSanity
    \/ UnitApplyStatModifiers
    \/ UnitConsumeActionPoint
    \/ UnitResetTurnFlags

SpecUnit == InitUnit /\ [][NextUnit]_vars

\* C11: a take_damage(a) call on a unit of health h >= 0 returns min(a, h),
\* leaves current_health = h - min(a, h), never below 0, and sets
\* is_incapacitated exactly when the resulting health is 0: the flag is TRUE
\* after a call that leaves health 0 and is left as it was by any other call.
C11_TakeDamage ==
    [][ result'.op = "take_damage" =>
          LET u == units["unit"]
              v == units'["unit"]
              h == u.current_health
              a == result'.amount
          IN  /\ h >= 0 /\ a >= 0
              /\ result'.value = Min(a, h)
              /\ v.current_health = h - Min(a, h)
              /\ v.current_health >= 0
              /\ (v.current_health = 0 => v.is_incapacitated)
              /\ (v.current_health > 0 => v.is_incapacitated = u.is_incapacitated)
              /\ v = [u EXCEPT !.current_health = v.current_health,
                               !.is_incapacitated = v.is_incapacitated] ]_vars

\* a take_damage call whose amount exceeded the health left: capped, health 0
C11_Witness ==
    /\ result.op = "take_damage"
    /\ result.amount > result.value
    /\ result.value > 0
    /\ units["unit"].current_health = 0
    /\ units["unit"].is_incapacitated

\* C12: once is_incapacitated is TRUE, no call of take_damage,
\* take_sanity_damage, heal, restore_sanity, apply_stat_modifiers or
\* reset_turn_flags makes it FALSE again, so can_act() stays FALSE.
C12_IncapacitatedForever ==
    [][ units["unit"].is_incapacitated =>
          /\ units'["unit"].is_incapacitated
          /\ ~can_act(units'["unit"]) ]_vars

\* an incapacitated unit healed back to positive health and sanity
C12_Witness ==
    /\ result.op \in {"heal", "restore_sanity"}
    /\ result.value > 0
    /\ units["unit"].is_incapacitated
    /\ units["unit"].current_health > 0
    /\ units["unit"].current_sanity > 0

\* C28: in every state reached through take_damage, take_sanity_damage, heal,
\* restore_sanity and apply_stat_modifiers with damage and heal amounts that
\* are not negative, every unit has 0 <= current_health <= max_health and
\* 0 <= current_sanity <= max_sanity.
C28_WithinMaximum ==
    \A u \in DOMAIN units :
        /\ 0 <= units[u].current_health
        /\ units[u].current_health <= max_health(units[u])
        /\ 0 <= units[u].current_sanity
        /\ units[u].current_sanity <= max_sanity(units[u])

(***************************************************************************)
(* combat/enemy_ai.py: movement towards the target and the enemy turn      *)
(***************************************************************************)
\* A move that gives every unit the position of the destination
move_unit_on_dragging(tl, us, n, from, to) ==
    IF /\ is_valid_position(n, from[1], from[2])
       /\ is_valid_position(n, to[1], to[2])
       /\ is_occupied(tl[from])
       /\ ~is_occupied(tl[to])
    THEN LET unit == tl[from].occupied_by IN
         [ tiles |-> [tl EXCEPT ![from].occupied_by = None,
                                ![to].occupied_by = unit],
           units |-> [u \in DOMAIN us |-> [us[u] EXCEPT !.position = to]],
           value |-> TRUE ]
    ELSE [tiles |-> tl, units |-> us, value |-> FALSE]

\* Grid.move_unit on a given grid: [tiles, units, value]
move_unit_on(tl, us, n, from, to) ==
    IF /\ is_valid_position(n, from[1], from[2])
       /\ is_valid_position(n, to[1], to[2])
       /\ is_occupied(tl[from])
       /\ ~is_occupied(tl[to])
    THEN LET unit == tl[from].occupied_by IN
         [ tiles |-> [tl EXCEPT ![from].occupied_by = None,
                                ![to].occupied_by = unit],
           units |-> [us EXCEPT ![unit].position = to],
           value |-> TRUE ]
    ELSE [tiles |-> tl, units |-> us, value |-> FALSE]

\* calculate_movement_target, the goals: the neighbors of the target that
\* neither block movement nor are occupied, in the order of get_neighbors
valid_goals(tl, n, target_pos) ==
    SelectSeq(get_neighbors(n, target_pos),
              LAMBDA c : ~tl[c].blocks_movement /\ ~is_occupied(tl[c]))

\* min(valid_goals, key=distance to the enemy): the first goal no other
\* goal is nearer than
best_goal(goals, enemy_pos) ==
    goals[CHOOSE i \in 1 .. Len(goals) :
              /\ \A j \in 1 .. Len(goals) :
                     get_distance_sq(enemy_pos, goals[i])
                         <= get_distance_sq(enemy_pos, goals[j])
              /\ \A j \in 1 .. i - 1 :
                     get_distance_sq(enemy_pos, goals[i])
                         < get_distance_sq(enemy_pos, goals[j])]

\* calculate_movement_target, the step cost from prev to curr as the pair
\* <<orthogonal, diagonal>>: <<0, 1>> is sqrt(2), <<1, 0>> is 1.0
step_cost_flat(prev, curr) == <<1, 0>>

step_cost(prev, curr) ==
    IF Abs(curr[1] - prev[1]) + Abs(curr[2] - prev[2]) = 2
    THEN <<0, 1>> ELSE <<1, 0>>

\* calculate_movement_target, the budget loop from index i of the path on
\* (path[0] of the code is path[1] here): the destination_index reached.
\* The accumulated cost is a + b*sqrt(2).
RECURSIVE BudgetLoop(_, _, _, _, _, _)
BudgetLoop(path, i, a, b, destination_index, max_tiles) ==
    IF i > Len(path) - 1 THEN destination_index
    ELSE LET cost == step_cost(path[i], path[i + 1])
             na   == a + cost[1]
             nb   == b + cost[2]
         IN  IF ~CostLess(max_tiles, 0, na, nb)
             THEN BudgetLoop(path, i + 1, na, nb, i, max_tiles)
             ELSE destination_index

\* A movement target whose path is searched as if no unit stood on the grid
calculate_movement_target_blind(us, tl, n, enemy, target, max_tiles) ==
    LET none == [raised |-> FALSE, value |-> NoPos] IN
    IF us[enemy].position = NoPos \/ us[target].position = NoPos THEN none
    ELSE LET clear == [c \in Cells(n) |-> [tl[c] EXCEPT !.occupied_by = None]]
             goals == valid_goals(clear, n, us[target].position)
         IN
         IF goals = <<>> THEN none
         ELSE LET path == find_path(clear, n, us[enemy].position,
                                    best_goal(goals, us[enemy].position), NoMax)
              IN  IF path = NoPath \/ Len(path) <= 1 THEN none
                  ELSE LET destination_index ==
                               BudgetLoop(path, 1, 0, 0, 0, max_tiles)
                           destination == path[destination_index + 1]
                       IN  IF destination_index < 1 THEN none
                           ELSE IF /\ is_occupied(tl[destination])
                                   /\ tl[destination].occupied_by # target
                           THEN [raised |-> TRUE, value |-> NoPos]
                           ELSE [raised |-> FALSE, value |-> destination]

\* calculate_movement_target(enemy, target, grid, max_tiles):
\* [raised, value], value the destination or NoPos for None.  The branch
\* for a destination occupied by another unit reads the name move_distance,
\* which is bound nowhere: the call raises NameError there.
calculate_movement_target(us, tl, n, enemy, target, max_tiles) ==
    LET none == [raised |-> FALSE, value |-> NoPos] IN
    IF us[enemy].position = NoPos \/ us[target].position = NoPos THEN none
    ELSE LET goals == valid_goals(tl, n, us[target].position) IN
         IF goals = <<>> THEN none
         ELSE LET path == find_path(tl, n, us[enemy].position,
                                    best_goal(goals, us[enemy].position), NoMax)
              IN  IF path = NoPath \/ Len(path) <= 1 THEN none
                  ELSE LET destination_index ==
                               BudgetLoop(path, 1, 0, 0, 0, max_tiles)
                           destination == path[destination_index + 1]
                       IN  IF destination_index < 1 THEN none
                           ELSE IF /\ is_occupied(tl[destination])
                                   /\ tl[destination].occupied_by # target
                           THEN [raised |-> TRUE, value |-> NoPos]
                           ELSE [raised |-> FALSE, value |-> destination]

\* execute_enemy_turn returning None
NoResult == [returned |-> None]

\* a choice of target that takes the first investigator, able to act or not
select_target_any(us, enemy, investigators) ==
    IF investigators = <<>> THEN None ELSE investigators[1]

\* execute_enemy_turn, the choice of the target by the enemy's class
select_target(us, enemy, investigators) ==
    IF us[enemy].kind = "Cultist"
    THEN find_highest_health_target(us, investigators)
    ELSE IF us[enemy].kind = "Hound"
    THEN find_nearest_target(us, enemy, investigators)
    ELSE None

\* an attack step that resolves the attack without asking can_attack
attack_after_move_unchecked(us, dk, tl, n, enemy, target, roll, monster_deck) ==
    { [ ret   |-> [ attacker |-> enemy, target |-> target,
                    result |-> o.result ],
        tiles |-> tl, units |-> o.units, decks |-> o.decks ] :
      o \in resolve_attack(us, dk, tl, n, enemy, target, roll, monster_deck) }

\* execute_enemy_turn, the attack step after the movement step: the outcomes
\* [ret, tiles, units, decks]
attack_after_move(us, dk, tl, n, enemy, target, roll, monster_deck) ==
    IF us[enemy].position = NoPos \/ us[target].position = NoPos
    THEN { [ret |-> NoResult, tiles |-> tl, units |-> us, decks |-> dk] }
    ELSE IF can_attack(us[enemy].position, us[target].position,
                       weapon_range(us[enemy]), tl, n).ok
    THEN { [ ret   |-> [ attacker |-> enemy, target |-> target,
                         result |-> o.result ],
             tiles |-> tl, units |-> o.units, decks |-> o.decks ] :
           o \in resolve_attack(us, dk, tl, n, enemy, target, roll, monster_deck) }
    ELSE { [ret |-> NoResult, tiles |-> tl, units |-> us, decks |-> dk] }

\* execute_enemy_turn(enemy, investigators, grid, monster_deck) with the d100
\* roll as an input: the outcomes [raised, target, move_to, ret, tiles,
\* units, decks] the call may have
execute_enemy_turn(us, dk, tl, n, enemy, investigators, roll, monster_deck) ==
    LET skip == { [ raised |-> FALSE, target |-> None, move_to |-> NoPos,
                    ret |-> NoResult, tiles |-> tl, units |-> us, decks |-> dk ] }
    IN  IF ~can_act(us[enemy]) THEN skip
        ELSE LET target == select_target(us, enemy, investigators) IN
             IF target = None THEN skip
             ELSE LET m == calculate_movement_target(us, tl, n, enemy, target,
                                                     movement_range(us[enemy]))
                  IN  IF m.raised
                      THEN { [ raised |-> TRUE, target |-> target,
                               move_to |-> NoPos, ret |-> NoResult,
                               tiles |-> tl, units |-> us, decks |-> dk ] }
                      ELSE LET g == IF m.value # NoPos
                                    THEN move_unit_on(tl, us, n,
                                                      us[enemy].position, m.value)
                                    ELSE [tiles |-> tl, units |-> us, value |-> FALSE]
                           IN  { [ raised |-> FALSE, target |-> target,
                                   move_to |-> m.value, ret |-> o.ret,
                                   tiles |-> o.tiles, units |-> o.units,
                                   decks |-> o.decks ] :
                                 o \in attack_after_move(g.units, dk, g.tiles, n,
                                           enemy, target, roll, monster_deck) }

(***************************************************************************)
(* Specification of the enemy turn: a Cultist or a Hound, at full or       *)
(* reduced movement, and two investigators are placed on their spawn       *)
(* columns, cover is added between them, units take killing blows, and     *)
(* execute_enemy_turn is called for the enemy with any roll.               *)
(***************************************************************************)
EnemyUnits == {"enemy"} \cup {Investigators[i] : i \in 1 .. Len(Investigators)}

\* movement modifiers an enemy starts with
MovementChanges == {0, -2}

\* the cells a unit may be placed on: investigators on the left columns,
\* the enemy on the right column
EnemySpawnCells(u) ==
    IF u = "enemy" THEN {<<size - 1, 0>>, <<size - 1, 2>>}
    ELSE IF u = Investigators[1] THEN {<<0, 0>>, <<0, 1>>}
    ELSE {<<0, size - 1>>, <<1, 2>>}

\* the d100 rolls of the enemy turn: a sure hit and a sure miss
EnemyRolls == {1, 100}

InitEnemy ==
    /\ size = EnemyN
    /\ screen = NoScreen
    /\ tiles = NewGrid(EnemyN)
    /\ \E e \in {Cultist, HoundOfTindalos}, m \in MovementChanges :
           units = [u \in EnemyUnits |->
                       IF u = "enemy"
                       THEN apply_stat_modifiers(e, [k \in {"movement"} |-> m])
                       ELSE IF u = Investigators[1]
                       THEN NewUnit("player", "Investigator", 4, 10, 75, 5, 4)
                       ELSE NewUnit("player", "Investigator", 6, 10, 75, 5, 4)]
    /\ decks = [d \in {"monster"} |-> [NewDeck EXCEPT !.draw_pile = CombatCards]]
    /\ result = [op |-> "init"]

EnemyPlace ==
    \E u \in EnemyUnits : \E c \in EnemySpawnCells(u) :
        /\ units[u].position = NoPos
        /\ place_unit(u, c[1], c[2])
        /\ UNCHANGED <<screen, size, decks>>

EnemyAddCover ==
    \E c \in Cells(size), cover_type \in {"full_cover"} :
        /\ 0 < c[1] /\ c[1] < size - 1
        /\ Cardinality(CoverTiles) < MaxEnemyCover
        /\ add_cover(c[1], c[2], cover_type)
        /\ UNCHANGED <<screen, size, units, decks>>

\* a blow of the unit's whole health
KillingBlow ==
    \E u \in EnemyUnits :
        LET r == take_damage(units[u], max_health(units[u])) IN
        /\ can_act(units[u])
        /\ units' = [units EXCEPT ![u] = r.unit]
        /\ result' = [op |-> "take_damage", value |-> r.value]
        /\ UNCHANGED <<screen, size, tiles, decks>>

ExecuteEnemyTurn ==
    \E roll \in EnemyRolls, monster_deck \in {"monster"},
       investigators \in {Investigators, <<>>} :
        /\ decks["monster"].total_cards_drawn < MaxEnemyDraws
        /\ \E o \in execute_enemy_turn(units, decks, tiles, size, "enemy",
                                       investigators, roll, monster_deck) :
               /\ tiles' = o.tiles
               /\ units' = o.units
               /\ decks' = o.decks
               /\ result' = [ op |-> "execute_enemy_turn",
                              investigators |-> investigators,
                              from |-> units["enemy"].position,
                              raised |-> o.raised, target |-> o.target,
                              move_to |-> o.move_to, ret |-> o.ret ]
        /\ UNCHANGED <<screen, size>>

NextEnemy == EnemyPlace \/ EnemyAddCover \/ KillingBlow \/ ExecuteEnemyTurn

SpecEnemy == InitEnemy /\ [][NextEnemy]_vars

\* the cost <<a, b>>, a + b*sqrt(2), of the first i steps of a path: a steps
\* along a row or a column, b steps that change both coordinates
PathCost(path, i) ==
    LET straight == {k \in 1 .. i : \/ path[k][1] = path[k + 1][1]
                                    \/ path[k][2] = path[k + 1][2]}
    IN  <<Cardinality(straight), i - Cardinality(straight)>>

\* the cost of the first i steps of a path does not exceed the budget
Affordable(path, i, budget) ==
    ~CostLess(budget, 0, PathCost(path, i)[1], PathCost(path, i)[2])

\* the grid as it was before the enemy moved from one tile to another
BeforeMove(tl, from, to) ==
    [tl EXCEPT ![to].occupied_by = None, ![from].occupied_by = "enemy"]

Attackable(us, tl, n, target) ==
    /\ us["enemy"].position # NoPos
    /\ us[target].position # NoPos
    /\ can_attack(us["enemy"].position, us[target].position,
                  weapon_range(us["enemy"]), tl, n).ok

\* C14: in every call of execute_enemy_turn with a selected target, at most
\* one attack is resolved, only after the movement step, and exactly when
\* can_attack from the enemy's position after the move to the target's
\* position at enemy.weapon_range is valid; the returned result then names
\* the enemy as attacker and the target as target; otherwise the call
\* returns None and changes no health, no sanity and no deck.
C14_OneAttackAfterMove ==
    [][ (result'.op = "execute_enemy_turn" /\ result'.target # None) =>
          LET target == result'.target
              ret    == result'.ret
              moved  == IF result'.move_to # NoPos THEN result'.move_to
                        ELSE units["enemy"].position
              drawn  == decks'["monster"].total_cards_drawn
                            - decks["monster"].total_cards_drawn
          IN  /\ ~result'.raised
              /\ units'["enemy"].position = moved
              /\ \A u \in EnemyUnits \ {"enemy"} :
                     units'[u].position = units[u].position
              /\ IF Attackable(units', tiles', size, target)
                 THEN /\ "attacker" \in DOMAIN ret
                      /\ ret.attacker = "enemy"
                      /\ ret.target = target
                      /\ ret.result.valid
                      /\ drawn \in {0, 1}
                      /\ drawn = 1 <=> ret.result.hit
                      /\ units'[target].current_health =
                             units[target].current_health - ret.result.damage_dealt
                      /\ \A u \in EnemyUnits \ {target} :
                             /\ units'[u].current_health = units[u].current_health
                             /\ units'[u].current_sanity = units[u].current_sanity
                 ELSE /\ ret = NoResult
                      /\ decks' = decks
                      /\ \A u \in EnemyUnits :
                             /\ units'[u].current_health = units[u].current_health
                             /\ units'[u].current_sanity = units[u].current_sanity ]_vars

\* the enemy moved and then hit its target
C14_Witness ==
    /\ result.op = "execute_enemy_turn"
    /\ result.move_to # NoPos
    /\ "attacker" \in DOMAIN result.ret
    /\ result.ret.result.hit
    /\ result.ret.result.damage_dealt > 0

\* no investigator of the list can act
NoneActive(us, investigators) ==
    \A i \in 1 .. Len(investigators) : ~can_act(us[investigators[i]])

\* C15: execute_enemy_turn called for an incapacitated enemy, or when no
\* investigator is active (all incapacitated, or the list empty), returns
\* None and leaves the grid, every unit and every deck unchanged.
C15_NothingToDo ==
    [][ ( /\ result'.op = "execute_enemy_turn"
          /\ \/ ~can_act(units["enemy"])
             \/ NoneActive(units, result'.investigators) ) =>
          /\ result'.ret = NoResult
          /\ ~result'.raised
          /\ result'.move_to = NoPos
          /\ tiles' = tiles
          /\ units' = units
          /\ decks' = decks ]_vars

\* the turn of an enemy able to act, everyone placed, every investigator of
\* the list down
C15_Witness ==
    /\ result.op = "execute_enemy_turn"
    /\ result.investigators # <<>>
    /\ NoneActive(units, result.investigators)
    /\ can_act(units["enemy"])
    /\ \A u \in EnemyUnits : units[u].position # NoPos
    /\ result.ret = NoResult

\* C25: the tile calculate_movement_target returns holds no unit when it is
\* returned: the branch for an occupied destination is never entered (no
\* call raises), and the Grid.move_unit that follows in execute_enemy_turn
\* succeeds, leaving the enemy on the returned tile and its old tile empty.
C25_MoveTargetIsFree ==
    [][ result'.op = "execute_enemy_turn" =>
          /\ ~result'.raised
          /\ result'.move_to # NoPos =>
                 /\ ~is_occupied(tiles[result'.move_to])
                 /\ tiles[result'.from].occupied_by = "enemy"
                 /\ tiles'[result'.move_to].occupied_by = "enemy"
                 /\ tiles'[result'.from].occupied_by = None
                 /\ units'["enemy"].position = result'.move_to ]_vars

\* the enemy has moved towards a target next to which the other
\* investigator stands, on a tile that is therefore no goal
C25_Witness ==
    /\ result.op = "execute_enemy_turn"
    /\ result.move_to # NoPos
    /\ \E other \in EnemyUnits \ {"enemy", result.target} :
           /\ units[other].position # NoPos
           /\ get_distance_sq(units[other].position,
                              units[result.target].position) <= 2

\* C26: when the enemy can attack the target it selects from the tile it
\* stands on at the start of execute_enemy_turn (can_attack valid with its
\* weapon_range), the call resolves an attack against that target: the
\* movement step takes no enemy from a tile it can attack from to one it
\* cannot attack from.
C26_AttacksWhenInReach ==
    [][ ( /\ result'.op = "execute_enemy_turn"
          /\ result'.target # None
          /\ units["enemy"].position # NoPos
          /\ units[result'.target].position # NoPos
          /\ can_attack(units["enemy"].position,
                        units[result'.target].position,
                        weapon_range(units["enemy"]), tiles, size).ok )
        => /\ result'.ret # NoResult
           /\ result'.ret.target = result'.target ]_vars

\* C29: a call of execute_enemy_turn changes the position and the tile of no
\* unit other than the acting enemy, changes the health, the sanity and the
\* incapacitated flag of no unit other than the selected target, and leaves
\* the terrain of every tile as it was.
C29_EnemyTurnFrame ==
    [][ result'.op = "execute_enemy_turn" =>
          /\ \A u \in EnemyUnits \ {"enemy"} :
                 /\ units'[u].position = units[u].position
                 /\ \A c \in Cells(size) :
                        (tiles'[c].occupied_by = u) <=> (tiles[c].occupied_by = u)
          /\ \A u \in EnemyUnits \ {result'.target} :
                 /\ units'[u].current_health = units[u].current_health
                 /\ units'[u].current_sanity = units[u].current_sanity
                 /\ units'[u].is_incapacitated = units[u].is_incapacitated
          /\ \A c \in Cells(size) :
                 /\ tiles'[c].terrain_type = tiles[c].terrain_type
                 /\ tiles'[c].blocks_sight = tiles[c].blocks_sight
                 /\ tiles'[c].blocks_movement = tiles[c].blocks_movement
                 /\ tiles'[c].defense_bonus = tiles[c].defense_bonus ]_vars

\* the enemy has moved and then hit its target for damage while the other
\* investigator and a cover tile were on the grid
C29_Witness ==
    /\ result.op = "execute_enemy_turn"
    /\ result.move_to # NoPos
    /\ result.ret # NoResult
    /\ result.ret.result.valid
    /\ result.ret.result.hit
    /\ result.ret.result.damage_dealt > 0
    /\ \A u \in EnemyUnits : units[u].position # NoPos
    /\ \E c \in Cells(size) : tiles[c].terrain_type = "full_cover"

(***************************************************************************)
(* Specification of path queries: a mover on the left column, a second     *)
(* unit right of it and a full cover tile on the inner columns are put on  *)
(* the grid, and find_path is asked for a path from the mover's tile, or   *)
(* from a tile off the grid, to any tile on or next to the grid, with and  *)
(* without max_distance.                                                   *)
(***************************************************************************)
\* tiles off the grid, one beyond the left side and one beyond the bottom
OffGrid(n) == {<<-1, 0>>, <<1, n>>}

InitFind ==
    /\ size = FindN
    /\ screen = NoScreen
    /\ tiles = NewGrid(FindN)
    /\ units = [u \in PathUnits |-> NewUnit("enemy", "Unit", 15, 10, 75, 5, 4)]
    /\ decks = NoDecks
    /\ result = [op |-> "init"]

FindPlace ==
    \E u \in PathUnits, c \in Cells(size) :
        /\ units[u].position = NoPos
        /\ u = "mover" <=> c[1] = 0
        /\ place_unit(u, c[1], c[2])
        /\ UNCHANGED <<screen, size, decks>>

FindAddCover ==
    \E c \in Cells(size) :
        /\ 0 < c[1] /\ c[1] < size - 1
        /\ Cardinality(CoverTiles) < MaxFindCover
        /\ add_cover(c[1], c[2], "full_cover")
        /\ UNCHANGED <<screen, size, units, decks>>

FindPath ==
    \E start \in {units["mover"].position} \cup OffGrid(size),
       goal \in Cells(size) \cup OffGrid(size),
       max_distance \in {NoMax, MaxFindDistance} :
        /\ start # NoPos
        /\ result' = [ op |-> "find_path", start |-> start, goal |-> goal,
                       max_distance |-> max_distance,
                       value |-> find_path(tiles, size, start, goal, max_distance) ]
        /\ UNCHANGED <<screen, size, tiles, units, decks>>

NextFind == FindPlace \/ FindAddCover \/ FindPath

SpecFind == InitFind /\ [][NextFind]_vars

\* C16: a path returned by find_path starts at start, ends at goal, its
\* consecutive cells are 8-adjacent and in bounds, and no cell after the
\* first is occupied or blocks movement; find_path returns None whenever the
\* goal differs from start and is occupied, whenever start or goal is out of
\* bounds, and whenever there is no traversable path of cost at most
\* max_distance (a returned path is such a path).
C16_FindPathSound ==
    result.op = "find_path" =>
        LET path == result.value
            inb(c) == is_valid_position(size, c[1], c[2])
        IN  /\ path # NoPath =>
                /\ path[1] = result.start
                /\ path[Len(path)] = result.goal
                /\ \A k \in 1 .. Len(path) : inb(path[k])
                /\ \A k \in 1 .. Len(path) - 1 :
                       /\ Abs(path[k + 1][1] - path[k][1]) <= 1
                       /\ Abs(path[k + 1][2] - path[k][2]) <= 1
                       /\ path[k + 1] # path[k]
                /\ \A k \in 2 .. Len(path) :
                       /\ ~is_occupied(tiles[path[k]])
                       /\ ~tiles[path[k]].blocks_movement
                /\ result.max_distance # NoMax =>
                       Affordable(path, Len(path) - 1, result.max_distance)
            /\ (~inb(result.start) \/ ~inb(result.goal)) => path = NoPath
            /\ ( /\ inb(result.start) /\ inb(result.goal)
                 /\ result.goal # result.start
                 /\ is_occupied(tiles[result.goal]) ) => path = NoPath

\* a returned path that goes around something: more steps than the larger
\* coordinate difference of its ends
C16_Witness ==
    /\ result.op = "find_path"
    /\ result.value # NoPath
    /\ Len(result.value) - 1 >
           Max(Abs(result.goal[1] - result.start[1]),
               Abs(result.goal[2] - result.start[2]))

(***************************************************************************)
(* Specification of consecutive draws: a deck of n cards, 1 <= n <=        *)
(* MaxDeckSize, all in the draw pile, from which draw() is called n + 1     *)
(* times.  The record of the last call also keeps the pile the deck        *)
(* started with, the cards returned so far and the number of draws that    *)
(* found the draw pile empty and reshuffled.                               *)
(***************************************************************************)
\* the draw piles of a deck of n cards
StartPiles ==
    UNION { [1 .. n -> DeckCardKinds] : n \in 1 .. MaxDeckSize }

InitDraw ==
    /\ size = 0
    /\ screen = NoScreen
    /\ tiles = NewGrid(0)
    /\ units = [u \in {} |-> 0]
    /\ \E pile \in StartPiles :
           /\ decks = [d \in {"deck"} |-> [NewDeck EXCEPT !.draw_pile = pile]]
           /\ result = [ op |-> "init", start |-> pile, returned |-> <<>>,
                         reshuffles |-> 0 ]

DrawAgain ==
    /\ Len(result.returned) <= Len(result.start)
    /\ \E r \in deck_draw(decks["deck"]) :
        /\ decks' = [decks EXCEPT !["deck"] = r.deck]
        /\ result' = [ op |-> "draw", start |-> result.start,
                       returned |-> Append(result.returned, r.card),
                       reshuffles |-> result.reshuffles +
                           IF decks["deck"].draw_pile = <<>> THEN 1 ELSE 0 ]
        /\ DeckFrame

NextDraw == DrawAgain

SpecDraw == InitDraw /\ [][NextDraw]_vars

\* the number of copies of a card in a pile
PileCount(pile, card) == Cardinality({i \in 1 .. Len(pile) : pile[i] = card})

\* C17: from a deck whose n >= 1 cards are all in the draw pile, n
\* consecutive draw() calls return each card exactly once with no reshuffle
\* (the cards of the draw pile from the top down), and draw number n + 1
\* first moves the whole discard pile into the draw pile and then returns
\* one card, leaving n - 1 cards in the draw pile and exactly 1 in the
\* discard pile.
C17_DrawsEachCardOnce ==
    LET n == Len(result.start)
        k == Len(result.returned)
        d == decks["deck"]
    IN  /\ k <= n =>
            /\ result.reshuffles = 0
            /\ result.returned = SubSeq(result.start, 1, k)
            /\ d.discard_pile = result.returned
            /\ d.draw_pile = SubSeq(result.start, k + 1, n)
        /\ k = n =>
            /\ d.draw_pile = <<>>
            /\ \A card \in DeckCardKinds :
                   PileCount(result.returned, card) = PileCount(result.start, card)
        /\ k = n + 1 =>
            /\ result.reshuffles = 1
            /\ Len(d.draw_pile) = n - 1
            /\ d.discard_pile = <<result.returned[k]>>
            /\ result.returned[k] # NoCard
            /\ \A card \in DeckCardKinds :
                   DeckCount(d, card) = PileCount(result.start, card)

\* draw number n + 1 of a deck of n >= 2 cards that are not all alike
C17_Witness ==
    /\ result.op = "draw"
    /\ Len(result.returned) = Len(result.start) + 1
    /\ Len(result.start) >= 2
    /\ result.start[1] # result.start[2]
    /\ result.reshuffles = 1

\* C18: reset() leaves the discard pile empty and the draw pile holding
\* every card that was in either pile, and leaves total_cards_drawn,
\* nulls_drawn and crits_drawn unchanged.
C18_ResetKeepsStatistics ==
    [][ result'.op = "reset" =>
          LET d == decks["deck"]
              e == decks'["deck"]
          IN  /\ e.discard_pile = <<>>
              /\ Len(e.draw_pile) = Len(d.draw_pile) + Len(d.discard_pile)
              /\ \A card \in DeckCardKinds :
                     PileCount(e.draw_pile, card) = DeckCount(d, card)
              /\ e.total_cards_drawn = d.total_cards_drawn
              /\ e.nulls_drawn = d.nulls_drawn
              /\ e.crits_drawn = d.crits_drawn ]_vars

\* a reset after draws, with cards in both piles gathered again
C18_Witness ==
    /\ result.op = "reset"
    /\ decks["deck"].total_cards_drawn > 0
    /\ decks["deck"].nulls_drawn > 0
    /\ Len(decks["deck"].draw_pile) >= 2
    /\ decks["deck"].discard_pile = <<>>

(***************************************************************************)
(* combat/battle_screen.py: the turn order                                 *)
(***************************************************************************)
\* _advance_turn, the search loop that takes the next index whoever stands
\* there
find_next_any(order, us, original) ==
    [index |-> (original + 1) % Len(order), found |-> TRUE, i |-> 0]

\* _advance_turn, the search loop: [index, found, i], the current_turn_index
\* the loop ends on, whether it found a unit that can act, and the value of
\* i it stopped at.  The indices are those of the code, from 0.
find_next(order, us, original) ==
    LET len     == Len(order)
        at(i)   == (original + 1 + i) % len
        hits    == {i \in 0 .. len - 1 : can_act(us[order[at(i) + 1]])}
    IN  IF hits = {}
        THEN [index |-> at(len - 1), found |-> FALSE, i |-> len - 1]
        ELSE LET i == CHOOSE h \in hits : \A k \in hits : h <= k
             IN  [index |-> at(i), found |-> TRUE, i |-> i]

\* BattleScreen._advance_turn(): [screen, units, wraps, raised].  A turn
\* given to an enemy is skipped by a nested call; when only enemies can act
\* the nesting never ends and the interpreter raises RecursionError (raised).
\* With one enemy the nested calls repeat one step that changes nothing
\* after its first execution, so the state at the error does not depend on
\* the depth at which it is raised.  wraps counts the calls whose search
\* found a unit at or beyond the end of turn_order, that is after wrapping
\* to its start.
RECURSIVE advance_turn(_, _, _)
advance_turn(sc, us, depth) ==
    IF sc.turn_order = <<>>
    THEN [screen |-> sc, units |-> us, wraps |-> 0, raised |-> FALSE]
    ELSE LET order    == sc.turn_order
             original == sc.current_turn_index
             us1 == IF sc.current_turn_unit # None
                    THEN [us EXCEPT ![sc.current_turn_unit] = reset_turn_flags(@)]
                    ELSE us
             f   == find_next(order, us1, original)
             sc2 == [ sc EXCEPT
                        !.current_turn_index = f.index,
                        !.current_turn_unit =
                            IF f.found THEN order[f.index + 1] ELSE @,
                        !.round_number =
                            IF \/ f.index < original
                               \/ (f.index = 0 /\ original > 0)
                            THEN @ + 1 ELSE @ ]
             w   == IF f.found /\ original + 1 + f.i >= Len(order) THEN 1 ELSE 0
         IN  IF ~f.found
             THEN [screen |-> sc2, units |-> us1, wraps |-> w, raised |-> FALSE]
             ELSE IF us1[sc2.current_turn_unit].team = "enemy"
             THEN IF depth >= MaxNesting
                  THEN [screen |-> sc2, units |-> us1, wraps |-> w, raised |-> TRUE]
                  ELSE LET r == advance_turn(sc2, us1, depth + 1)
                       IN  [r EXCEPT !.wraps = @ + w]
             ELSE [screen |-> sc2, units |-> us1, wraps |-> w, raised |-> FALSE]

(***************************************************************************)
(* Specification of the turn order: any roster of two investigators and    *)
(* one enemy in any order, units are incapacitated, the unit whose turn it *)
(* is spends action points, and the turn is advanced.                      *)
(***************************************************************************)
\* random.shuffle(player_units + enemy_units) for every roster
TurnOrders ==
    UNION { Shuffles(order) :
              order \in { SelectSeq(<<"inv1", "inv2", "enemy">>,
                                    LAMBDA u : u \in roster) :
                          roster \in SUBSET EnemyUnits } }

InitTurn ==
    /\ size = 0
    /\ tiles = NewGrid(0)
    /\ units = [u \in EnemyUnits |->
                   IF u = "enemy"
                   THEN NewUnit("enemy", "Cultist", 10, 8, 60, 3, 4)
                   ELSE NewUnit("player", "Investigator", 4, 10, 75, 5, 4)]
    /\ decks = NoDecks
    /\ \E order \in TurnOrders :
           screen = [ turn_order |-> order, current_turn_index |-> 0,
                      current_turn_unit |->
                          IF order # <<>> THEN order[1] ELSE None,
                      round_number |-> 1 ]
    /\ result = [op |-> "init"]

TurnFrame == UNCHANGED <<size, tiles, decks>>

TurnKillingBlow ==
    \E u \in EnemyUnits :
        LET r == take_damage(units[u], max_health(units[u])) IN
        /\ can_act(units[u])
        /\ units' = [units EXCEPT ![u] = r.unit]
        /\ result' = [op |-> "take_damage", value |-> r.value]
        /\ UNCHANGED screen
        /\ TurnFrame

TurnConsumeActionPoint ==
    /\ screen.current_turn_unit # None
    /\ LET r == consume_action_point(units[screen.current_turn_unit], 1) IN
       /\ units' = [units EXCEPT ![screen.current_turn_unit] = r.unit]
       /\ result' = [op |-> "consume_action_point", value |-> r.value]
    /\ UNCHANGED screen
    /\ TurnFrame

AdvanceTurn ==
    /\ screen.round_number < MaxRounds
    /\ LET r == advance_turn(screen, units, 0) IN
       /\ screen' = r.screen
       /\ units' = r.units
       /\ result' = [op |-> "_advance_turn", wraps |-> r.wraps, raised |-> r.raised]
    /\ TurnFrame

NextTurn == TurnKillingBlow \/ TurnConsumeActionPoint \/ AdvanceTurn

SpecTurn == InitTurn /\ [][NextTurn]_vars

\* some unit of the turn order can act
SomeoneCanAct ==
    \E i \in 1 .. Len(screen.turn_order) : can_act(units[screen.turn_order[i]])

\* C19: after every _advance_turn, if at least one unit of turn_order can
\* act, current_turn_unit is a unit of turn_order with can_act() true: an
\* incapacitated unit is never given the turn.
C19_TurnGoesToActiveUnit ==
    (result.op = "_advance_turn" /\ SomeoneCanAct) =>
        /\ screen.current_turn_unit # None
        /\ \E i \in 1 .. Len(screen.turn_order) :
               screen.turn_order[i] = screen.current_turn_unit
        /\ can_act(units[screen.current_turn_unit])

\* the turn was advanced past an incapacitated unit: the unit before the
\* current one in the order cannot act
C19_Witness ==
    /\ result.op = "_advance_turn"
    /\ Len(screen.turn_order) = 3
    /\ can_act(units[screen.current_turn_unit])
    /\ ~can_act(units[screen.turn_order[
            ((screen.current_turn_index + 2) % 3) + 1]])

\* C20: round_number is incremented by exactly one each time the
\* advancement passes the end of turn_order and wraps to its start, and is
\* left alone by an advancement that does not wrap, whatever units are
\* incapacitated, also when only one unit can still act.
C20_RoundCountsWraps ==
    [][ result'.op = "_advance_turn" =>
          screen'.round_number = screen.round_number + result'.wraps ]_vars

(***************************************************************************)
(* Specification of shortest routes: a mover stands on any tile of the     *)
(* grid, up to MaxWalls other units stand on other tiles, and find_path is *)
(* asked once, without max_distance, for the path from the mover's tile to *)
(* any tile of the grid.                                                   *)
(***************************************************************************)
Walls == {"w" \o ToString(i) : i \in 1 .. MaxWalls}

RouteUnits == {"mover"} \cup Walls

\* the place of a cell in row-major order
CellIndex(n, c) == c[2] * n + c[1]

\* the unit the arrangement puts on cell c, None if none: the mover on
\* start, wall i on ws[i] for i <= k
RouteOccupant(c, start, ws, k) ==
    IF c = start THEN "mover"
    ELSE IF \E i \in 1 .. k : ws[i] = c
    THEN "w" \o ToString(CHOOSE i \in 1 .. k : ws[i] = c)
    ELSE None

InitRoute ==
    /\ size = RouteN
    /\ screen = NoScreen
    /\ decks = NoDecks
    /\ \E start \in Cells(RouteN), goal \in Cells(RouteN),
          k \in 0 .. MaxWalls, ws \in [1 .. MaxWalls -> Cells(RouteN)] :
           /\ \A i \in 1 .. MaxWalls :
                  IF i <= k
                  THEN /\ ws[i] # start
                       /\ \A j \in 1 .. i - 1 :
                              CellIndex(RouteN, ws[j]) < CellIndex(RouteN, ws[i])
                  ELSE ws[i] = <<0, 0>>
           /\ tiles = [c \in Cells(RouteN) |->
                          [Tile("empty") EXCEPT
                               !.occupied_by = RouteOccupant(c, start, ws, k)]]
           /\ units = [u \in RouteUnits |->
                          [NewUnit("enemy", "Unit", 15, 10, 75, 5, 4) EXCEPT
                               !.position =
                                   IF u = "mover" THEN start
                                   ELSE IF \E i \in 1 .. k : u = "w" \o ToString(i)
                                   THEN ws[CHOOSE i \in 1 .. k :
                                               u = "w" \o ToString(i)]
                                   ELSE NoPos]]
           /\ result = [op |-> "init", start |-> start, goal |-> goal]

FindRoute ==
    /\ result.op = "init"
    /\ result' = [ op |-> "find_route", start |-> result.start,
                   goal |-> result.goal,
                   value |-> find_path(tiles, size, result.start, result.goal,
                                       NoMax) ]
    /\ UNCHANGED <<screen, size, tiles, units, decks>>

NextRoute == FindRoute

SpecRoute == InitRoute /\ [][NextRoute]_vars

\* the cheapest of a set of costs <<a, b>>
LeastCost(costs) ==
    CHOOSE x \in costs : \A y \in costs : ~CostLess(y[1], y[2], x[1], x[2])

\* the costs of entering cell c from the cells reached so far, R a set of
\* <<cell, cost>>: one more orthogonal or one more diagonal step, onto a tile
\* that neither blocks movement nor holds a unit
StepCosts(tl, R, c) ==
    IF tl[c].blocks_movement \/ is_occupied(tl[c]) THEN {}
    ELSE { IF r[1][1] = c[1] \/ r[1][2] = c[2]
           THEN <<r[2][1] + 1, r[2][2]>>
           ELSE <<r[2][1], r[2][2] + 1>> :
           r \in { q \in R : /\ q[1] # c
                              /\ Abs(q[1][1] - c[1]) <= 1
                              /\ Abs(q[1][2] - c[2]) <= 1 } }

\* the cells reached by a walk of at most k more steps from the cells of R,
\* each with the least cost of such a walk
RECURSIVE Cheapest(_, _, _, _)
Cheapest(tl, n, R, k) ==
    IF k = 0 THEN R
    ELSE LET costs(c) == {r[2] : r \in {q \in R : q[1] = c}}
                             \cup StepCosts(tl, R, c)
             R2 == { <<c, LeastCost(costs(c))>> :
                     c \in {d \in Cells(n) : costs(d) # {}} }
         IN  IF R2 = R THEN R ELSE Cheapest(tl, n, R2, k - 1)

\* the least cost of a traversable path from start to every cell that has
\* one, as a set of <<cell, cost>>
LeastCosts(tl, n, start) ==
    Cheapest(tl, n, {<<start, <<0, 0>>>>}, n * n - 1)

\* C21: the cost of a path returned by find_path (1 per orthogonal step,
\* sqrt(2) per diagonal step) is the least cost of any traversable path from
\* start to goal on that grid; with no unit in the way, the path between
\* (x, y) and (x+k, y+k) is k diagonal steps.
C21_PathIsCheapest ==
    (result.op = "find_route" /\ result.value # NoPath) =>
        LET path == result.value
            cost == PathCost(path, Len(path) - 1)
            reached == {r \in LeastCosts(tiles, size, result.start) :
                            r[1] = result.goal}
            dx   == result.goal[1] - result.start[1]
            dy   == result.goal[2] - result.start[2]
        IN  /\ reached # {}
            /\ \A r \in reached : ~CostLess(r[2][1], r[2][2], cost[1], cost[2])
            /\ ( /\ \A w \in Walls : units[w].position = NoPos
                 /\ dx = dy ) =>
                   /\ Len(path) = Abs(dx) + 1
                   /\ \A i \in 1 .. Len(path) - 1 :
                          /\ Abs(path[i + 1][1] - path[i][1]) = 1
                          /\ path[i + 1][1] - path[i][1] =
                                 path[i + 1][2] - path[i][2]

\* a path returned around units in the way: it holds orthogonal and diagonal
\* steps and is longer than the path of the empty grid
C21_Witness ==
    /\ result.op = "find_route"
    /\ result.value # NoPath
    /\ \E w \in Walls : units[w].position # NoPos
    /\ PathCost(result.value, Len(result.value) - 1)[1] > 0
    /\ PathCost(result.value, Len(result.value) - 1)[2] > 0
    /\ Len(result.value) - 1 >
           Max(Abs(result.goal[1] - result.start[1]),
               Abs(result.goal[2] - result.start[2]))

(***************************************************************************)
(* Specification of lines: bresenham_line is called once on any pair of    *)
(* integer cells, negative coordinates included.                           *)
(***************************************************************************)
LineCells == (-MaxCoordinate .. MaxCoordinate) \X (-MaxCoordinate .. MaxCoordinate)

InitLine ==
    /\ size = 0
    /\ screen = NoScreen
    /\ tiles = NewGrid(0)
    /\ units = [u \in {} |-> 0]
    /\ decks = NoDecks
    /\ \E start \in LineCells, end \in LineCells :
           result = [op |-> "init", start |-> start, end |-> end]

BresenhamLine ==
    /\ result.op = "init"
    /\ result' = [ op |-> "bresenham_line", start |-> result.start,
                   end |-> result.end,
                   value |-> bresenham_line(result.start, result.end) ]
    /\ UNCHANGED <<screen, size, tiles, units, decks>>

NextLine == BresenhamLine

SpecLine == InitLine /\ [][NextLine]_vars

\* -1, 0 or 1 as i is negative, zero or positive
Sign(i) == IF i < 0 THEN -1 ELSE IF i > 0 THEN 1 ELSE 0

\* C22: bresenham_line(start, end) returns a sequence that begins with
\* start, ends with end, has max(|dx|, |dy|) + 1 cells, and whose consecutive
\* cells are 8-adjacent; a horizontal, vertical or exact diagonal line is the
\* straight run of cells between its ends.
C22_LineShape ==
    result.op = "bresenham_line" =>
        LET line == result.value
            dx   == result.end[1] - result.start[1]
            dy   == result.end[2] - result.start[2]
        IN  /\ Len(line) = Max(Abs(dx), Abs(dy)) + 1
            /\ line[1] = result.start
            /\ line[Len(line)] = result.end
            /\ \A i \in 1 .. Len(line) - 1 :
                   /\ line[i + 1] # line[i]
                   /\ Abs(line[i + 1][1] - line[i][1]) <= 1
                   /\ Abs(line[i + 1][2] - line[i][2]) <= 1
            /\ (dx = 0 \/ dy = 0 \/ Abs(dx) = Abs(dy)) =>
                   \A i \in 1 .. Len(line) :
                       line[i] = << result.start[1] + (i - 1) * Sign(dx),
                                    result.start[2] + (i - 1) * Sign(dy) >>

\* a line that is neither horizontal, vertical nor diagonal and runs towards
\* smaller x and larger y
C22_Witness ==
    /\ result.op = "bresenham_line"
    /\ result.end[1] < result.start[1]
    /\ result.end[2] > result.start[2]
    /\ Abs(result.end[1] - result.start[1]) # Abs(result.end[2] - result.start[2])
    /\ Len(result.value) > 2

(***************************************************************************)
(* Specification of cover: an investigator stands on the left column and a *)
(* Cultist on the right column of the grid; Grid.add_cover is called any   *)
(* number of times on the tiles between them with any cover_type (the two  *)
(* cover kinds, "empty", and a kind the code does not know), and           *)
(* resolve_attack and get_attack_preview are called for either unit        *)
(* against the other.                                                      *)
(***************************************************************************)
CoverKinds == {"full_cover", "half_cover", "empty", "rubble"}

InitCover ==
    /\ size = CoverN
    /\ screen = NoScreen
    /\ \E yi \in 0 .. CoverN - 1, ye \in 0 .. CoverN - 1 :
           /\ tiles = [c \in Cells(CoverN) |->
                          [Tile("empty") EXCEPT !.occupied_by =
                               IF c = <<0, yi>> THEN "inv"
                               ELSE IF c = <<CoverN - 1, ye>> THEN "enemy"
                               ELSE None]]
           /\ units = [u \in CombatUnits |->
                          IF u = "inv"
                          THEN [equip_weapon(
                                    NewUnit("player", "Investigator", 8, 10, 75, 5, 4),
                                    ELDER_SIGN_AMULET)
                                EXCEPT !.position = <<0, yi>>]
                          ELSE [Cultist EXCEPT !.position = <<CoverN - 1, ye>>]]
    /\ decks = [d \in {combat_deck("inv"), "monster"} |->
                   [NewDeck EXCEPT !.draw_pile = CombatCards]]
    /\ result = [op |-> "init"]

CoverAdd ==
    \E c \in Cells(size), cover_type \in CoverKinds :
        /\ 0 < c[1] /\ c[1] < size - 1
        /\ add_cover(c[1], c[2], cover_type)
        /\ UNCHANGED <<screen, size, units, decks>>

CoverResolveAttack ==
    \E a \in CombatUnits, t \in CombatUnits, roll \in {1, 100} :
        /\ a # t
        /\ decks[AttackDeck(units, a, "monster")].total_cards_drawn < MaxCoverDraws
        /\ \E o \in resolve_attack(units, decks, tiles, size, a, t, roll,
                                   "monster") :
               /\ units' = o.units
               /\ decks' = o.decks
               /\ result' = [ op |-> "resolve_attack", attacker |-> a,
                              target |-> t, ret |-> o.result ]
        /\ UNCHANGED <<screen, size, tiles>>

CoverGetAttackPreview ==
    \E a \in CombatUnits, t \in CombatUnits :
        /\ a # t
        /\ result' = [ op |-> "get_attack_preview", attacker |-> a,
                       target |-> t,
                       ret |-> get_attack_preview(units, tiles, size, a, t) ]
        /\ UNCHANGED <<screen, size, tiles, units, decks>>

NextCover == CoverAdd \/ CoverResolveAttack \/ CoverGetAttackPreview

SpecCover == InitCover /\ [][NextCover]_vars

\* C23: a valid result of resolve_attack or get_attack_preview, on a grid
\* whose terrain was set through Grid.add_cover only, never reports the
\* cover "full_cover".
C23_NeverFullCover ==
    ( /\ result.op \in {"resolve_attack", "get_attack_preview"}
      /\ result.ret.valid ) => result.ret.cover # "full_cover"

\* a valid attack past full cover: half cover is reported for the line while
\* another tile between the columns is full cover
C23_Witness ==
    /\ result.op = "resolve_attack"
    /\ result.ret.valid
    /\ result.ret.cover = "half_cover"
    /\ \E c \in Cells(size) : tiles[c].terrain_type = "full_cover"

\* C24: after any sequence of Grid.add_cover calls with any cover_type, every
\* tile has blocks_sight exactly when its terrain_type is "full_cover", and
\* defense_bonus 40, 20 or 0 as its terrain_type is "full_cover",
\* "half_cover" or anything else.
C24_DerivedFieldsAgree ==
    \A c \in Cells(size) :
        /\ tiles[c].blocks_sight = (tiles[c].terrain_type = "full_cover")
        /\ tiles[c].defense_bonus =
               IF tiles[c].terrain_type = "full_cover" THEN 40
               ELSE IF tiles[c].terrain_type = "half_cover" THEN 20
               ELSE 0

(***************************************************************************)
(* Specification of sanity damage in combat: an investigator with the      *)
(* Elder Sign Amulet and a Cultist or a Hound stand next to each other;    *)
(* either unit takes sanity damage of any amount (Unit.take_sanity_damage) *)
(* and either unit attacks the other (resolve_attack) with a roll that     *)
(* hits or misses.                                                         *)
(***************************************************************************)
InitSanity ==
    /\ size = SanityN
    /\ screen = NoScreen
    /\ tiles = [c \in Cells(SanityN) |->
                   [Tile("empty") EXCEPT !.occupied_by =
                        IF c = <<0, 0>> THEN "inv"
                        ELSE IF c = <<1, 0>> THEN "enemy"
                        ELSE None]]
    /\ \E e \in {Cultist, HoundOfTindalos} :
           units = [u \in CombatUnits |->
                       IF u = "inv"
                       THEN [equip_weapon(
                                 NewUnit("player", "Investigator", 8, 10, 75, 5, 4),
                                 ELDER_SIGN_AMULET)
                             EXCEPT !.position = <<0, 0>>]
                       ELSE [e EXCEPT !.position = <<1, 0>>]]
    /\ decks = [d \in {combat_deck("inv"), "monster"} |->
                   [NewDeck EXCEPT !.draw_pile = CombatCards]]
    /\ result = [op |-> "init"]

SanityTakeSanityDamage ==
    \E u \in CombatUnits, amount \in 1 .. MaxShock :
        LET r == take_sanity_damage(units[u], amount) IN
        /\ units' = [units EXCEPT ![u] = r.unit]
        /\ result' = [op |-> "take_sanity_damage", value |-> r.value]
        /\ UNCHANGED <<screen, size, tiles, decks>>

SanityResolveAttack ==
    \E a \in CombatUnits, t \in CombatUnits, roll \in {1, 100} :
        /\ a # t
        /\ decks[AttackDeck(units, a, "monster")].total_cards_drawn < MaxSanityDraws
        /\ \E o \in resolve_attack(units, decks, tiles, size, a, t, roll,
                                   "monster") :
               /\ units' = o.units
               /\ decks' = o.decks
               /\ result' = [ op |-> "resolve_attack", attacker |-> a,
                              target |-> t, ret |-> o.result ]
        /\ UNCHANGED <<screen, size, tiles>>

NextSanity == SanityTakeSanityDamage \/ SanityResolveAttack

SpecSanity == InitSanity /\ [][NextSanity]_vars

\* C27: for every hit resolved by resolve_attack, 'sanity_damage' of the
\* result is the decrease of the target's current_sanity made by the attack
\* and 'damage_dealt' the decrease of its current_health, also when the
\* sanity damage exceeds the sanity the target has left.
C27_ReportedSanityDamage ==
    [][ ( /\ result'.op = "resolve_attack"
          /\ result'.ret.valid
          /\ result'.ret.hit )
        => /\ result'.ret.sanity_damage =
                  units[result'.target].current_sanity
                      - units'[result'.target].current_sanity
           /\ result'.ret.damage_dealt =
                  units[result'.target].current_health
                      - units'[result'.target].current_health ]_vars

\* C30: every call of BattleScreen._advance_turn returns, for every
\* turn_order and every pattern of incapacitated units, also when every
\* player unit is incapacitated and an enemy can still act: no call nests
\* until the interpreter's recursion limit ends it.
C30_AdvanceTurnReturns ==
    result.op = "_advance_turn" => ~result.raised

====
